---------------------------- MODULE Spec2Model ----------------------------
(***************************************************************************)
(* Admission-and-consistency control plane of niuflow-trade-service:       *)
(* request authentication (AuthService), fixed-window rate limiting        *)
(* (RateLimitService over CacheService), the exchange retry policy         *)
(* (ExchangeService.retryOperation) and the order lifecycle                *)
(* (OrderService over Database).                                           *)
(*                                                                         *)
(* The module holds eleven specifications over disjoint groups of             *)
(* variables:                                                              *)
(*   SpecRate   rate limiting: checkLimit (rl* variables)                  *)
(*   SpecExpiry the same under one limit  (rl* variables)                  *)
(*   SpecAdmit  rate limiting: checkRateLimit (ad* variables)              *)
(*   SpecAuth   authentication           (au* variables)                   *)
(*   SpecReplay an accepted envelope presented again (au* variables)       *)
(*   SpecPipeline hooks and handler of a request (pl*, au* variables)      *)
(*   SpecSign   sign, then verify        (sg* variables)                   *)
(*   SpecRetry  retryOperation           (rt* variables)                   *)
(*   Spec       order lifecycle          (od* variables)                   *)
(*   SpecReconcile reconciliation with the venue (od*, vn* variables)      *)
(*   SpecSync   the same, the venue unchanged (od*, vn* variables)         *)
(* Each specification leaves the groups it does not name at their initial  *)
(* value.                                                                  *)
(***************************************************************************)
EXTENDS Integers, Sequences, FiniteSets, TLC

VARIABLES
  \* ---- rate limiting
  rlNow,      \* the Counter Store's clock, in seconds
  rlCount,    \* Redis: key -> integer value of the counter (0: key absent)
  rlExpiry,   \* Redis: key -> absolute expiry time, or NoExpiry
  rlGen,      \* history: key -> number of times the key has been created
  rlConfig,   \* RateLimitService.endpointConfigs entry of the endpoint
  rlCall,     \* caller -> position and result of its checkLimit call
  \* ---- admission (checkRateLimit)
  adCount,    \* Redis: key -> integer value of the counter (0: key absent)
  adCall,     \* request -> position and result of its checkRateLimit call
  \* ---- authentication
  auNow,      \* the verifier's clock (Date.now()), in milliseconds
  auStatus,   \* Record Store: users.status of the provisioned identity
  auPerms,    \* Record Store: users.permissions of the provisioned identity
  auCache,    \* Counter Store: the cached User under user:<apiKey>, or NoUser
  auCacheExp, \* Counter Store: absolute expiry of that cache entry
  auLast,     \* the last authenticateRequest call: its request and result
  auGate,     \* the last requirePermission call on that request
  auKept,     \* the caller's copy of an accepted envelope, and its count
  \* ---- request pipeline
  plCount,    \* Redis: key -> integer value of the counter (0: key absent)
  plReq,      \* request -> its position in the hooks and what ran for it
  \* ---- signing and verifying one envelope
  sgIn,       \* the inputs: secrets, timestamp, method, path, body, wire form
  sgSig,      \* the signature generateSignature produced, <<>> before
  sgVerdict,  \* what verifySignature answered
  sgPc,       \* "start", "signed", "verified"
  \* ---- retryOperation
  rtOp,       \* which ExchangeService operation is retried
  rtScript,   \* what the venue answers to its 1st, 2nd, ... invocation
  rtRun,      \* the finished retryOperation call, or NoRun
  \* ---- order lifecycle
  odUsers,    \* Record Store: users table, id -> row
  odOrders,   \* Record Store: orders table, a sequence indexed by id
  odProc,     \* request task -> position and locals of its handler
  \* ---- the venue
  vnOrder     \* the venue's own record of the order, or VenueUntracked

rlVars == <<rlNow, rlCount, rlExpiry, rlGen, rlConfig, rlCall>>

adVars == <<adCount, adCall>>

auVars ==
  <<auNow, auStatus, auPerms, auCache, auCacheExp, auLast, auGate, auKept>>

plVars == <<plCount, plReq>>

sgVars == <<sgIn, sgSig, sgVerdict, sgPc>>

rtVars == <<rtOp, rtScript, rtRun>>

odVars == <<odUsers, odOrders, odProc>>

vnVars == <<vnOrder>>

vars == <<rlVars, adVars, auVars, plVars, sgVars, rtVars, odVars, vnVars>>

\* What the actions of one group leave alone.
notRl == <<adVars, auVars, plVars, sgVars, rtVars, odVars, vnVars>>
notAd == <<rlVars, auVars, plVars, sgVars, rtVars, odVars, vnVars>>
notAu == <<rlVars, adVars, plVars, sgVars, rtVars, odVars, vnVars>>
notSg == <<rlVars, adVars, auVars, plVars, rtVars, odVars, vnVars>>
notRt == <<rlVars, adVars, auVars, plVars, sgVars, odVars, vnVars>>
notOd == <<rlVars, adVars, auVars, plVars, sgVars, rtVars, vnVars>>
notOdVn == <<rlVars, adVars, auVars, plVars, sgVars, rtVars>>
notPl == <<rlVars, adVars, auVars, sgVars, rtVars, odVars, vnVars>>

----------------------------------------------------------------------------
(***************************************************************************)
(* Small helpers                                                           *)
(***************************************************************************)
Max(a, b) == IF a >= b THEN a ELSE b

Abs(a) == IF a >= 0 THEN a ELSE -a

\* Math.ceil(a / b) for a >= 0, b > 0
CeilDiv(a, b) == (a + b - 1) \div b

----------------------------------------------------------------------------
(***************************************************************************)
(* RATE LIMITING                                                           *)
(***************************************************************************)
NumCallers == 3     \* concurrent checkLimit calls
MaxLimit == 2       \* configured maxRequests range over 1..MaxLimit
MaxClock == 3       \* the clock stops advancing here

Callers == 1..NumCallers
RLUsers == {1, 2}
RLEndpoints == {"/api/v1/test"}
WindowMsChoices == {1000, 2500}

NoExpiry == -1

\* CacheService.getRateLimitKey: `ratelimit:${userId}:${endpoint}`
getRateLimitKey(userId, endpoint) == <<"ratelimit", userId, endpoint>>

RLKeys == {getRateLimitKey(u, e) : u \in RLUsers, e \in RLEndpoints}

\* windowSeconds = Math.ceil(config.windowMs / 1000)
windowSeconds(config) == CeilDiv(config.windowMs, 1000)

IdleCall == [pc |-> "idle", key |-> <<>>, gen |-> 0, count |-> 0,
             outcome |-> "none", limit |-> 0, remaining |-> 0,
             retryAfter |-> 0, fault |-> FALSE]

RateInit ==
  /\ rlNow = 0
  /\ rlCount = [k \in RLKeys |-> 0]
  /\ rlExpiry = [k \in RLKeys |-> NoExpiry]
  /\ rlGen = [k \in RLKeys |-> 0]
  /\ rlConfig \in [windowMs : WindowMsChoices, maxRequests : 1..MaxLimit]
  /\ rlCall = [p \in Callers |-> IdleCall]

RateIdle ==
  /\ rlNow = 0
  /\ rlCount = [k \in RLKeys |-> 0]
  /\ rlExpiry = [k \in RLKeys |-> NoExpiry]
  /\ rlGen = [k \in RLKeys |-> 0]
  /\ rlConfig = [windowMs |-> 1000, maxRequests |-> 1]
  /\ rlCall = [p \in Callers |-> IdleCall]

\* The catch block of checkLimit for anything but RateLimitError: fail open.
FailOpen(c) ==
  [c EXCEPT !.pc = "done", !.outcome = "failopen", !.fault = TRUE,
            !.limit = rlConfig.maxRequests,
            !.remaining = rlConfig.maxRequests]

\* The decision of checkLimit once currentCount is known and the expiry set:
\* over the limit the call goes on to read the TTL, otherwise it returns.
ExceedsLimitInclusive(currentCount, maxRequests) == currentCount >= maxRequests

ExceedsLimit(currentCount, maxRequests) == currentCount > maxRequests

Decide(c, currentCount) ==
  LET remaining == Max(0, rlConfig.maxRequests - currentCount)
      d == [c EXCEPT !.count = currentCount, !.limit = rlConfig.maxRequests,
                     !.remaining = remaining]
  IN  IF ExceedsLimit(currentCount, rlConfig.maxRequests)
        THEN [d EXCEPT !.pc = "ttl"]
        ELSE [d EXCEPT !.pc = "done", !.outcome = "admit"]

\* checkLimit entered for an authenticated caller: key computed.
RLStart(p, u, e) ==
  /\ rlCall[p].pc = "idle"
  /\ rlCall' = [rlCall EXCEPT ![p] =
                  [@ EXCEPT !.pc = "incr", !.key = getRateLimitKey(u, e)]]
  /\ UNCHANGED <<rlNow, rlCount, rlExpiry, rlGen, rlConfig>>
  /\ UNCHANGED notRl

\* redis.incr(key): the value after the atomic increment (an absent key counts
\* as 0).
IncrStuckAtOne(k) == IF rlCount[k] = 0 THEN 1 ELSE rlCount[k]

redisIncr(k) == rlCount[k] + 1

\* CacheService.increment: if (ttl && result === 1)
SetsExpiryAlways(ttl, result) == ttl # 0

SetsExpiry(ttl, result) == ttl # 0 /\ result = 1

\* CacheService.increment, first half: redis.incr(key).
RLIncr(p, ok) ==
  /\ rlCall[p].pc = "incr"
  /\ LET k == rlCall[p].key
         result == redisIncr(k)
         gen == IF rlCount[k] = 0 THEN rlGen[k] + 1 ELSE rlGen[k]
     IN IF ok
          THEN /\ rlCount' = [rlCount EXCEPT ![k] = result]
               /\ rlGen' = [rlGen EXCEPT ![k] = gen]
               /\ rlCall' = [rlCall EXCEPT ![p] =
                    IF SetsExpiry(windowSeconds(rlConfig), result)
                      THEN [@ EXCEPT !.pc = "expire", !.gen = gen,
                                     !.count = result]
                      ELSE Decide([@ EXCEPT !.gen = gen], result)]
          ELSE /\ rlCall' = [rlCall EXCEPT ![p] = FailOpen(@)]
               /\ UNCHANGED <<rlCount, rlGen>>
  /\ UNCHANGED <<rlNow, rlExpiry, rlConfig>>
  /\ UNCHANGED notRl

\* CacheService.increment, second half: redis.expire(key, ttl) when the
\* increment created the counter.
RLExpire(p, ok) ==
  /\ rlCall[p].pc = "expire"
  /\ LET k == rlCall[p].key
     IN IF ok
          THEN /\ rlExpiry' = [rlExpiry EXCEPT ![k] =
                    IF rlCount[k] = 0 THEN @
                    ELSE rlNow + windowSeconds(rlConfig)]
               /\ rlCall' = [rlCall EXCEPT ![p] = Decide(@, @.count)]
          ELSE /\ rlCall' = [rlCall EXCEPT ![p] = FailOpen(@)]
               /\ UNCHANGED rlExpiry
  /\ UNCHANGED <<rlNow, rlCount, rlGen, rlConfig>>
  /\ UNCHANGED notRl

\* redis.ttl(key): -2 for no key, -1 for no expiry, else the remaining whole
\* seconds; the clock's sub-second part is unknown, so either rounding.
RedisTtl(k) ==
  IF rlCount[k] = 0 THEN {-2}
  ELSE IF rlExpiry[k] = NoExpiry THEN {-1}
  ELSE {rlExpiry[k] - rlNow - 1, rlExpiry[k] - rlNow}

\* limitInfo.retryAfter = Math.max(1, ttl)
RetryAfter(ttl) == Max(1, ttl)

\* The over-limit branch: read the TTL and throw RateLimitError.
RLTtl(p, ok) ==
  /\ rlCall[p].pc = "ttl"
  /\ IF ok
       THEN \E ttl \in RedisTtl(rlCall[p].key) :
              rlCall' = [rlCall EXCEPT ![p] =
                 [@ EXCEPT !.pc = "done", !.outcome = "reject",
                           !.retryAfter = RetryAfter(ttl)]]
       ELSE rlCall' = [rlCall EXCEPT ![p] = FailOpen(@)]
  /\ UNCHANGED <<rlNow, rlCount, rlExpiry, rlGen, rlConfig>>
  /\ UNCHANGED notRl

\* Time passes; Redis drops the keys whose expiry has been reached.
RLTick ==
  /\ rlNow < MaxClock
  /\ rlNow' = rlNow + 1
  /\ LET dead == {k \in RLKeys : rlExpiry[k] # NoExpiry /\ rlExpiry[k] <= rlNow + 1}
     IN /\ rlCount' = [k \in RLKeys |-> IF k \in dead THEN 0 ELSE rlCount[k]]
        /\ rlExpiry' = [k \in RLKeys |-> IF k \in dead THEN NoExpiry ELSE rlExpiry[k]]
  /\ UNCHANGED <<rlGen, rlConfig, rlCall>>
  /\ UNCHANGED notRl

RateNext ==
  \/ \E p \in Callers, u \in RLUsers, e \in RLEndpoints : RLStart(p, u, e)
  \/ \E p \in Callers, ok \in BOOLEAN : RLIncr(p, ok)
  \/ \E p \in Callers, ok \in BOOLEAN : RLExpire(p, ok)
  \/ \E p \in Callers, ok \in BOOLEAN : RLTtl(p, ok)
  \/ RLTick


\* ---- properties of rate limiting

\* The Counter Store has been available to every call so far.
RLNoFault == \A p \in Callers : ~rlCall[p].fault

\* The calls that incremented the counter of key k in its g-th window.
InWindow(k, g) ==
  {p \in Callers : /\ rlCall[p].pc \in {"expire", "ttl", "done"}
                    /\ rlCall[p].key = k /\ rlCall[p].gen = g}

RLWindows == {<<k, g>> \in RLKeys \X (1..NumCallers) : InWindow(k, g) # {}}

\* C1: with the Counter Store available, once the N calls of one identity on
\* one endpoint within one window have all returned and N exceeds the limit L,
\* the calls that were admitted are exactly those that made the first L
\* increments, the other N-L were rejected with RateLimitError, and every
\* rejection carries retryAfter >= 1 and the configured limit.
C1_ExactlyLimitAdmitted ==
  RLNoFault =>
    \A w \in RLWindows :
      LET W == InWindow(w[1], w[2])
          L == rlConfig.maxRequests
          N == Cardinality(W)
          admitted == {p \in W : rlCall[p].outcome = "admit"}
          rejected == {p \in W : rlCall[p].outcome = "reject"}
      IN  ((\A p \in W : rlCall[p].pc = "done") /\ N > L) =>
            /\ {rlCall[p].count : p \in W} = 1..N
            /\ admitted = {p \in W : rlCall[p].count <= L}
            /\ Cardinality(admitted) = L
            /\ Cardinality(rejected) = N - L
            /\ \A p \in rejected : /\ rlCall[p].retryAfter >= 1
                                    /\ rlCall[p].limit = L

\* C1 witness: a window in which more calls than the limit have all returned
\* without any store fault, one of them rejected with the smallest retryAfter.
C1_Witness ==
  /\ RLNoFault
  /\ \E w \in RLWindows :
       LET W == InWindow(w[1], w[2])
       IN /\ \A p \in W : rlCall[p].pc = "done"
          /\ Cardinality(W) > rlConfig.maxRequests
          /\ \E p \in W : rlCall[p].outcome = "reject" /\ rlCall[p].retryAfter = 1

\* C2: with the Counter Store available, in every state of every interleaving
\* the calls of one window hold pairwise distinct post-increment counts, a
\* call's outcome is the one its own count dictates (never admitted with a
\* count above the limit, never rejected with a count within it), and at most
\* maxRequests calls of the window are admitted.
C2_ConcurrentAdmission ==
  RLNoFault =>
    \A w \in RLWindows :
      LET W == InWindow(w[1], w[2])
          L == rlConfig.maxRequests
      IN  /\ \A p, q \in W : p # q => rlCall[p].count # rlCall[q].count
          /\ \A p \in W :
                /\ rlCall[p].outcome = "admit" => rlCall[p].count <= L
                /\ (rlCall[p].outcome = "reject" \/ rlCall[p].pc = "ttl")
                     => rlCall[p].count > L
                /\ rlCall[p].outcome \in {"none", "admit", "reject"}
          /\ Cardinality({p \in W : rlCall[p].outcome = "admit"}) <= L

\* C2 witness: calls in flight in one window at once, the first still
\* setting the expiry while a later one is already over the limit.
C2_Witness ==
  /\ RLNoFault
  /\ \E w \in RLWindows :
       LET W == InWindow(w[1], w[2])
       IN /\ \E p \in W : rlCall[p].pc = "expire"
          /\ \E q \in W : rlCall[q].pc = "ttl"

\* C15: a counter's expiry is set only by the increment that takes its
\* count from 0 to 1 (by that call's redis.expire, to now + windowSeconds,
\* on a counter that has none); otherwise it changes only when Redis drops
\* the expired key.  Every later increment within the window, whether the
\* request is then admitted or rejected, leaves the expiry unchanged and is
\* followed by no redis.expire.
C15_ExpirySetByFirstIncrement ==
  [][/\ \A k \in RLKeys :
          rlExpiry'[k] # rlExpiry[k]
            => \/ rlNow' # rlNow /\ rlExpiry'[k] = NoExpiry
               \/ \E p \in Callers :
                    /\ rlCall[p].pc = "expire" /\ rlCall'[p].pc # "expire"
                    /\ rlCall[p].key = k
                    /\ rlCall[p].count = 1
                    /\ rlExpiry[k] = NoExpiry
                    /\ rlExpiry'[k] = rlNow + windowSeconds(rlConfig)
     /\ \A p \in Callers :
          (/\ rlCall[p].pc = "incr" /\ rlCall'[p].pc # "incr"
           /\ rlCount[rlCall[p].key] >= 1)
          => /\ rlExpiry' = rlExpiry
             /\ rlCall'[p].pc # "expire"]_vars

\* A window whose expiry is set, with a later increment admitted and another
\* rejected.
C15_Witness ==
  \E k \in RLKeys, p, q \in Callers :
    /\ rlExpiry[k] # NoExpiry
    /\ rlCall[p].key = k /\ rlCall[p].pc = "done"
    /\ rlCall[p].outcome = "admit" /\ rlCall[p].count = 2
    /\ rlCall[q].key = k /\ rlCall[q].pc = "done"
    /\ rlCall[q].outcome = "reject" /\ rlCall[q].count = 3
    /\ rlCall[p].gen = rlCall[q].gen

\* The increment that created the counter of key k has not come to its
\* redis.expire yet.
ExpiryPending(k) ==
  \E p \in Callers : rlCall[p].key = k /\ rlCall[p].pc = "expire"

\* C32: every admission counter created by a first request in a window
\* carries an expiry, so it expires once its window has elapsed and a
\* rejected scope is admitted again in a later window; no counter persists
\* without an expiry.
C32_NoCounterWithoutExpiry ==
  \A k \in RLKeys :
    (rlCount[k] > 0 /\ ~ExpiryPending(k)) => rlExpiry[k] # NoExpiry

----------------------------------------------------------------------------
(***************************************************************************)
(* ADMISSION: RateLimitService.checkRateLimit                              *)
(*                                                                         *)
(* A URL is its text as a sequence of tokens, an endpoint likewise: "/"    *)
(* and "?", one token per character of a segment the regular expressions   *)
(* of normalizeEndpoint can match (digits, capitals, a-f, "-"), and one    *)
(* token for each other word ("api", ":id"), none of which they match.  An *)
(* identifier is the text checkLimit is given, cut at its dots into        *)
(* numbers: <<10>> for user 10, <<10, 0, 0, 1>> for 10.0.0.1, <<>> for a   *)
(* text that does not start with a digit ('unknown').  The counters of one *)
(* window are followed; each checkLimit call is one step.                  *)
(***************************************************************************)
AdCallers == {1, 2}                 \* requests in flight
AdUserIds == {7, 10}                \* authenticated identities
AdIps == {<<10, 0, 0, 1>>, <<10, 0, 0, 2>>, <<>>}

\* Character classes of the regular expressions: \d, [A-Z], [a-f0-9-]
Digits == {"0", "1", "2", "3", "4", "5", "6", "7", "8", "9"}
Capitals == {"B", "C", "D", "E", "H", "S", "T", "U"}
HexOrDash == Digits \cup {"a", "b", "c", "d", "e", "f", "-"}

\* The text "/w1/w2/..." of the words w1, w2, ...
Path(words) ==
  [i \in 1..(2 * Len(words)) |->
     IF i % 2 = 1 THEN "/" ELSE words[i \div 2]]

Uuid550 ==
  <<"5", "5", "0", "e", "8", "4", "0", "0", "-", "e", "2", "9", "b", "-",
    "4", "1", "d", "4", "-", "a", "7", "1", "6", "-",
    "4", "4", "6", "6", "5", "5", "4", "4", "0", "0", "0", "0">>
Uuid123 ==
  <<"1", "2", "3", "e", "4", "5", "6", "7", "-", "e", "8", "9", "b", "-",
    "1", "2", "d", "3", "-", "a", "4", "5", "6", "-",
    "4", "2", "6", "6", "1", "4", "1", "7", "4", "0", "0", "0">>
UuidF47 ==
  <<"f", "4", "7", "a", "c", "1", "0", "b", "-", "5", "8", "c", "c", "-",
    "4", "3", "7", "2", "-", "a", "5", "6", "7", "-",
    "0", "e", "0", "2", "b", "2", "c", "3", "d", "4", "7", "9">>
UuidA3B ==
  <<"a", "3", "b", "b", "1", "8", "9", "e", "-", "8", "b", "f", "9", "-",
    "3", "8", "8", "8", "-", "9", "9", "1", "2", "-",
    "a", "c", "e", "4", "e", "6", "5", "4", "3", "0", "0", "2">>

\* Sets of URLs that differ only in the query string or in one numeric,
\* instrument-pair or UUID segment.
AdUrlFamilies ==
  LET order == Path(<<"api", "v1", "trade", "order">>)
      ticker == Path(<<"api", "v1", "market", "ticker">>)
      users == Path(<<"api", "v1", "users">>)
  IN  {{order, order \o <<"?", "limit=10&offset=0">>},
       {order \o <<"/", "1", "2", "3">>, order \o <<"/", "4", "5", "6">>},
       {ticker \o <<"/", "B", "T", "C", "/", "U", "S", "D", "T">>,
        ticker \o <<"/", "E", "T", "H", "/", "U", "S", "D", "T">>},
       {users \o <<"/">> \o Uuid550, users \o <<"/">> \o Uuid123},
       {users \o <<"/">> \o UuidF47, users \o <<"/">> \o UuidA3B}}

AdUrls == UNION AdUrlFamilies

\* auth: the userId getAuthData gives, 0 when it throws; ip: request.ip
AdRequests ==
  {[auth |-> u, ip |-> <<10, 0, 0, 1>>, url |-> url] :
     u \in AdUserIds, url \in AdUrls}
  \cup {[auth |-> 0, ip |-> ip, url |-> url] : ip \in AdIps, url \in AdUrls}

\* The number of leading tokens of text that are in class.
RECURSIVE RunLen(_, _)
RunLen(text, class) ==
  IF text # <<>> /\ text[1] \in class
    THEN 1 + RunLen(Tail(text), class) ELSE 0

Drop(text, n) == SubSeq(text, n + 1, Len(text))

\* url.split('?')[0]
RECURSIVE BeforeQuery(_)
BeforeQuery(url) ==
  IF url = <<>> \/ url[1] = "?" THEN <<>>
  ELSE <<url[1]>> \o BeforeQuery(Tail(url))

\* path.replace(/\/\d+/g, '/:id'): a slash and all the digits after it
RECURSIVE ReplaceIds(_)
ReplaceIds(text) ==
  IF text = <<>> THEN <<>>
  ELSE LET digits == RunLen(Tail(text), Digits)
       IN  IF text[1] = "/" /\ digits >= 1
             THEN <<"/", ":id">> \o ReplaceIds(Drop(text, 1 + digits))
             ELSE <<text[1]>> \o ReplaceIds(Tail(text))

\* .replace(/\/[A-Z]{2,10}\/[A-Z]{2,10}/g, '/:symbol'): a slash, 2 to 10
\* capitals up to the next slash, and up to 10 of at least 2 capitals after it
RECURSIVE ReplaceSymbols(_)
ReplaceSymbols(text) ==
  IF text = <<>> THEN <<>>
  ELSE LET base == RunLen(Tail(text), Capitals)
           rest == Drop(text, 1 + base)
           quote == IF rest # <<>> /\ rest[1] = "/"
                      THEN RunLen(Tail(rest), Capitals) ELSE 0
           taken == IF quote > 10 THEN 10 ELSE quote
       IN  IF text[1] = "/" /\ base >= 2 /\ base <= 10 /\ quote >= 2
             THEN <<"/", ":symbol">> \o ReplaceSymbols(Drop(rest, 1 + taken))
             ELSE <<text[1]>> \o ReplaceSymbols(Tail(text))

\* .replace(/\/[a-f0-9-]{36}/g, '/:uuid'): a slash and 36 of a-f, 0-9, "-"
RECURSIVE ReplaceUuids(_)
ReplaceUuids(text) ==
  IF text = <<>> THEN <<>>
  ELSE IF text[1] = "/" /\ RunLen(Tail(text), HexOrDash) >= 36
    THEN <<"/", ":uuid">> \o ReplaceUuids(Drop(text, 37))
    ELSE <<text[1]>> \o ReplaceUuids(Tail(text))

\* RateLimitService.normalizeEndpoint
normalizeEndpoint(url) ==
  ReplaceUuids(ReplaceSymbols(ReplaceIds(BeforeQuery(url))))

\* RateLimitService.initializeEndpointConfigs, in insertion order
endpointConfigs ==
  <<[pattern |-> Path(<<"api", "v1", "trade", "order">>),
     config |-> [windowMs |-> 60000, maxRequests |-> 10]],
    [pattern |-> Path(<<"api", "v1", "trade", "orders">>),
     config |-> [windowMs |-> 60000, maxRequests |-> 30]],
    [pattern |-> Path(<<"api", "v1", "market", "ticker">>),
     config |-> [windowMs |-> 60000, maxRequests |-> 200]],
    [pattern |-> Path(<<"api", "v1", "market", "depth">>),
     config |-> [windowMs |-> 60000, maxRequests |-> 100]],
    [pattern |-> Path(<<"api", "v1", "market", "klines">>),
     config |-> [windowMs |-> 60000, maxRequests |-> 50]],
    [pattern |-> Path(<<"api", "v1", "account", "balance">>),
     config |-> [windowMs |-> 60000, maxRequests |-> 60]]>>

\* RATE_LIMIT_WINDOW || '60000', RATE_LIMIT_MAX || '100'
defaultConfig == [windowMs |-> 60000, maxRequests |-> 100]

\* checkRateLimit: globalConfig
globalConfig == [windowMs |-> 60000, maxRequests |-> 1000]

\* endpoint.startsWith(pattern), on the texts the segments stand for
StartsWith(endpoint, pattern) ==
  /\ Len(pattern) <= Len(endpoint)
  /\ \A i \in 1..(Len(pattern) - 1) : endpoint[i] = pattern[i]
  /\ \/ endpoint[Len(pattern)] = pattern[Len(pattern)]
     \/ /\ pattern[Len(pattern)] = "order"
        /\ endpoint[Len(pattern)] = "orders"

\* RateLimitService.getConfig: the exact entry, else the first entry whose
\* pattern the endpoint starts with, else the default
getConfig(endpoint) ==
  LET exact == {i \in 1..Len(endpointConfigs) :
                  endpointConfigs[i].pattern = endpoint}
      starts == {i \in 1..Len(endpointConfigs) :
                   StartsWith(endpoint, endpointConfigs[i].pattern)}
      first(S) == CHOOSE i \in S : \A j \in S : i <= j
  IN  IF exact # {} THEN endpointConfigs[first(exact)].config
      ELSE IF starts # {} THEN endpointConfigs[first(starts)].config
      ELSE defaultConfig

\* RateLimitService.getClientIP: request.ip || 'unknown' (no proxy headers)
getClientIP(request) == request.ip

\* parseInt(identifier) || 0
ParsedOrZero(identifier) ==
  IF identifier = <<>> THEN 0 ELSE identifier[1]

\* RateLimitService.getRateLimitKey(identifier, endpoint)
ScopeRateLimitKey(identifier, endpoint) ==
  getRateLimitKey(ParsedOrZero(identifier), endpoint)

\* RateLimitService.getGlobalRateLimitKey: `ratelimit:global:${ip}`
getGlobalRateLimitKey(ip) == <<"ratelimit:global", ip>>

AdEndpoints == {normalizeEndpoint(url) : url \in AdUrls}
AdScopeKeys ==
  {getRateLimitKey(n, e) : n \in AdUserIds \cup {0}, e \in AdEndpoints}
AdGlobalKeys == {getGlobalRateLimitKey(ip) : ip \in AdIps}

\* RateLimitInfo
LimitInfo(limit, remaining) == [limit |-> limit, remaining |-> remaining]
NoInfo == LimitInfo(0, 0)

\* catch (error) of checkLimit: { limit: maxRequests, remaining: maxRequests }
AdFailClosed(config) == LimitInfo(config.maxRequests, 0)

AdFailOpen(config) == LimitInfo(config.maxRequests, config.maxRequests)

\* Where the Counter Store may fail in one checkLimit call whose increment
\* would give `result`: at redis.incr, at redis.expire (called after the
\* increment that created the counter), at redis.ttl (called over the limit).
AdFaults(result, config) ==
  {"none", "incr"}
  \cup (IF SetsExpiry(windowSeconds(config), result)
          THEN {"expire"} ELSE {})
  \cup (IF ExceedsLimit(result, config.maxRequests) THEN {"ttl"} ELSE {})

\* RateLimitService.checkLimit on a counter that stands at `count`: the
\* counter afterwards, whether RateLimitError is thrown, the info returned.
checkLimit(count, config, fault) ==
  LET currentCount == count + 1
  IN  IF fault = "incr"
        THEN [count |-> count, raised |-> FALSE, info |-> AdFailOpen(config)]
      ELSE IF fault \in {"expire", "ttl"}
        THEN [count |-> currentCount, raised |-> FALSE,
              info |-> AdFailOpen(config)]
      ELSE [count |-> currentCount,
            raised |-> ExceedsLimit(currentCount, config.maxRequests),
            info |-> LimitInfo(config.maxRequests,
                               Max(0, config.maxRequests - currentCount))]

NoAdRequest == [auth |-> 0, ip |-> <<>>, url |-> <<>>]

\* pc: "idle", "scope" (before the user/IP check), "global" (before the
\* global check), "done"; identifier, endpoint, config: the locals of
\* checkRateLimit; scopeKeys, globalKeys: the counters the call incremented.
IdleAdCall ==
  [pc |-> "idle", req |-> NoAdRequest, isAuthenticated |-> FALSE,
   identifier |-> <<>>, endpoint |-> <<>>, config |-> defaultConfig,
   userLimitInfo |-> NoInfo, globalLimitInfo |-> NoInfo,
   scopeFault |-> FALSE, globalFault |-> FALSE,
   scopeKeys |-> {}, globalKeys |-> {},
   outcome |-> "none", returned |-> NoInfo]

\* The counters of the window so far: empty, or one of them one short of
\* its limit.
AdStartCounts ==
  {[scope |-> {}, global |-> {}],
   [scope |-> {getRateLimitKey(10, Path(<<"api", "v1", "trade", "order">>))},
    global |-> {}],
   [scope |-> {}, global |-> {getGlobalRateLimitKey(<<10, 0, 0, 1>>)}]}

AdmitInit ==
  /\ \E hot \in AdStartCounts :
       adCount =
         [scope |-> [k \in AdScopeKeys |->
                       IF k \in hot.scope
                         THEN getConfig(k[3]).maxRequests - 1 ELSE 0],
          global |-> [k \in AdGlobalKeys |->
                        IF k \in hot.global
                          THEN globalConfig.maxRequests - 1 ELSE 0]]
  /\ adCall = [p \in AdCallers |-> IdleAdCall]

AdmitIdle ==
  /\ adCount = [scope |-> [k \in AdScopeKeys |-> 0],
                global |-> [k \in AdGlobalKeys |-> 0]]
  /\ adCall = [p \in AdCallers |-> IdleAdCall]

\* checkRateLimit up to the first checkLimit: endpoint, config, identifier
AdStart(p, request) ==
  /\ adCall[p].pc = "idle"
  /\ LET endpoint == normalizeEndpoint(request.url)
     IN  adCall' = [adCall EXCEPT ![p] =
           [@ EXCEPT !.pc = "scope", !.req = request,
                     !.endpoint = endpoint,
                     !.config = getConfig(endpoint),
                     !.isAuthenticated = request.auth # 0,
                     !.identifier = IF request.auth # 0
                                      THEN <<request.auth>>
                                      ELSE getClientIP(request)]]
  /\ UNCHANGED adCount
  /\ UNCHANGED notAd

\* checkLimit(identifier, endpoint, config, isAuthenticated ? 'user' : 'ip')
AdScopeCheck(p, fault) ==
  /\ adCall[p].pc = "scope"
  /\ LET c == adCall[p]
         key == ScopeRateLimitKey(c.identifier, c.endpoint)
         r == checkLimit(adCount.scope[key], c.config, fault)
         d == [c EXCEPT !.userLimitInfo = r.info,
                        !.scopeFault = fault # "none",
                        !.scopeKeys = IF r.count # adCount.scope[key]
                                        THEN {key} ELSE {}]
     IN  /\ fault \in AdFaults(adCount.scope[key] + 1, c.config)
         /\ adCount' = [adCount EXCEPT !.scope[key] = r.count]
         /\ adCall' = [adCall EXCEPT ![p] =
               IF r.raised
                 THEN [d EXCEPT !.pc = "done", !.outcome = "reject"]
               ELSE IF c.isAuthenticated
                 THEN [d EXCEPT !.pc = "done", !.outcome = "admit",
                                !.returned = r.info]
               ELSE [d EXCEPT !.pc = "global"]]
  /\ UNCHANGED notAd

\* if (!isAuthenticated): checkLimit(identifier, 'global', globalConfig,
\* 'global'), then the info with fewer remaining requests is returned
AdGlobalCheck(p, fault) ==
  /\ adCall[p].pc = "global"
  /\ LET c == adCall[p]
         key == getGlobalRateLimitKey(c.identifier)
         r == checkLimit(adCount.global[key], globalConfig, fault)
         d == [c EXCEPT !.globalLimitInfo = r.info,
                        !.globalFault = fault # "none",
                        !.globalKeys = IF r.count # adCount.global[key]
                                         THEN {key} ELSE {}]
     IN  /\ fault \in AdFaults(adCount.global[key] + 1, globalConfig)
         /\ adCount' = [adCount EXCEPT !.global[key] = r.count]
         /\ adCall' = [adCall EXCEPT ![p] =
               IF r.raised
                 THEN [d EXCEPT !.pc = "done", !.outcome = "reject"]
               ELSE [d EXCEPT !.pc = "done", !.outcome = "admit",
                              !.returned =
                                IF r.info.remaining < c.userLimitInfo.remaining
                                  THEN r.info ELSE c.userLimitInfo]]
  /\ UNCHANGED notAd

AdmitNext ==
  \E p \in AdCallers :
    \/ \E request \in AdRequests : AdStart(p, request)
    \/ \E fault \in {"none", "incr", "expire", "ttl"} : AdScopeCheck(p, fault)
    \/ \E fault \in {"none", "incr", "expire", "ttl"} : AdGlobalCheck(p, fault)

\* ---- properties of admission
\* The info is the synthetic one of a failed check under `config`.
IsFailOpenInfo(info, config) ==
  info.limit = config.maxRequests /\ info.remaining = config.maxRequests

\* The info checkRateLimit returns when both checks passed.
StricterInfo(c) ==
  IF c.globalLimitInfo.remaining < c.userLimitInfo.remaining
    THEN c.globalLimitInfo ELSE c.userLimitInfo

\* C14 as stated: if the Counter Store operation fails during an admission
\* check, checkRateLimit does not raise: the request is admitted and the
\* returned info has limit = maxRequests and remaining = maxRequests.
C14_AsStated ==
  \A p \in AdCallers :
    (adCall[p].pc = "done" /\ (adCall[p].scopeFault \/ adCall[p].globalFault))
    => /\ adCall[p].outcome = "admit"
       /\ \/ IsFailOpenInfo(adCall[p].returned, adCall[p].config)
          \/ IsFailOpenInfo(adCall[p].returned, globalConfig)

\* C14, amended: a checkLimit call during which the Counter Store fails does
\* not raise and yields limit = remaining = the maxRequests of its own
\* configuration.  For an authenticated caller, whose request has one check,
\* checkRateLimit then admits the request and returns that info.  For an
\* unauthenticated caller the other check still counts: the request is
\* rejected only if that check ran without fault and found its counter over
\* the limit, and when admitted the info returned is the one with fewer
\* remaining requests of the two.
C14_FailOpenPerCheck ==
  \A p \in AdCallers :
    LET c == adCall[p]
        globalKey == getGlobalRateLimitKey(c.identifier)
    IN  /\ (c.scopeFault /\ c.pc \in {"global", "done"})
            => /\ IsFailOpenInfo(c.userLimitInfo, c.config)
               /\ c.isAuthenticated
                    => /\ c.pc = "done" /\ c.outcome = "admit"
                       /\ IsFailOpenInfo(c.returned, c.config)
               /\ (c.pc = "done" /\ c.outcome = "reject")
                    => /\ ~c.isAuthenticated /\ ~c.globalFault
                       /\ adCount.global[globalKey] > globalConfig.maxRequests
        /\ (c.globalFault /\ c.pc = "done")
            => /\ IsFailOpenInfo(c.globalLimitInfo, globalConfig)
               /\ c.outcome = "admit"
        /\ (c.pc = "done" /\ c.outcome = "admit" /\ ~c.isAuthenticated)
            => c.returned = StricterInfo(c)

\* An authenticated request admitted after a store fault, and an
\* unauthenticated one whose global check failed: it is admitted with the
\* info of its endpoint check, which is not the synthetic one.
C14_Witness ==
  \E p, q \in AdCallers :
    /\ adCall[p].pc = "done" /\ adCall[p].isAuthenticated
    /\ adCall[p].scopeFault /\ adCall[p].scopeKeys # {}
    /\ adCall[p].outcome = "admit"
    /\ adCall[q].pc = "done" /\ ~adCall[q].isAuthenticated
    /\ adCall[q].globalFault /\ ~adCall[q].scopeFault
    /\ adCall[q].outcome = "admit"
    /\ adCall[q].returned.remaining < adCall[q].returned.limit

\* The scope of a request: the identity, or the source address.
ScopeOf(c) == <<c.isAuthenticated, c.identifier>>

\* C16: admission counters are independent per (scope, endpoint class): an
\* authenticated caller's requests affect only the counter of its own
\* identity and endpoint class, an unauthenticated caller's requests affect
\* only the counters of its own source address, and no two distinct source
\* addresses, nor a source address and an identity, ever share a counter.
C16_CountersIndependent ==
  /\ \A p \in AdCallers :
       adCall[p].isAuthenticated
         => /\ adCall[p].scopeKeys \subseteq
                 {getRateLimitKey(adCall[p].req.auth, adCall[p].endpoint)}
            /\ adCall[p].globalKeys = {}
  /\ \A p, q \in AdCallers :
       (/\ adCall[p].pc # "idle" /\ adCall[q].pc # "idle"
        /\ ScopeOf(adCall[p]) # ScopeOf(adCall[q]))
       => /\ adCall[p].scopeKeys \cap adCall[q].scopeKeys = {}
          /\ adCall[p].globalKeys \cap adCall[q].globalKeys = {}

\* Two calls of one caller (the same identity, or the same source address)
\* that have both incremented their endpoint counter.
SameScopeCounted(p, q) ==
  /\ ScopeOf(adCall[p]) = ScopeOf(adCall[q])
  /\ adCall[p].scopeKeys # {} /\ adCall[q].scopeKeys # {}

\* C22: endpoint-class derivation drops the query string and replaces
\* numeric, instrument-pair and UUID path segments by placeholders, so that
\* two requests of one caller that differ only in the query string or in such
\* a segment are counted against the same counter.
C22_SameClassSameCounter ==
  \A p, q \in AdCallers : \A family \in AdUrlFamilies :
    (/\ SameScopeCounted(p, q)
     /\ adCall[p].req.url \in family /\ adCall[q].req.url \in family)
    => adCall[p].scopeKeys = adCall[q].scopeKeys

----------------------------------------------------------------------------
(***************************************************************************)
(* AUTHENTICATION                                                          *)
(*                                                                         *)
(* Strings that are taken apart or glued together are sequences of tokens; *)
(* string concatenation is \o.                                             *)
(***************************************************************************)
AuMaxTicks == 2       \* the verifier's clock advances this many times
AuTickMs == 150000    \* by this many milliseconds each time

\* private readonly TIME_WINDOW = 5 * 60 * 1000
TIME_WINDOW == 5 * 60 * 1000

\* cacheService.set(cacheKey, user, 300): seconds
UserCacheTtl == 300

\* --- JavaScript values of request.body
Undefined == [t |-> "undefined", s |-> <<>>]
StrVal(s) == [t |-> "string", s |-> s]

\* request.body ? ... : ...   (undefined and '' are falsy)
Truthy(v) == v.t = "string" /\ v.s # <<>>

Quote == "\""

\* JSON.stringify of a string value: the text between double quotes (the
\* modelled alphabet needs no escapes).
JSONStringify(v) == <<Quote>> \o v.s \o <<Quote>>

\* JSON.parse of such a text
JSONParse(text) == StrVal(SubSeq(text, 2, Len(text) - 1))

\* createHmac('sha256', key).update(message).digest('hex'), idealised as
\* collision free: the digest determines key and message.
HmacSha256Hex(key, message) == <<"hmac-sha256", key, message>>

\* AuthService.generateSignature
generateSignature(timestamp, method, path, body, apiSecret) ==
  HmacSha256Hex(apiSecret, <<timestamp, method, path>> \o body)

\* The body text verifySignature signs:
\*   request.body ? JSON.stringify(request.body) : ''
BodyTextRaw(reqBody) == reqBody.s

BodyText(reqBody) == IF Truthy(reqBody) THEN JSONStringify(reqBody) ELSE <<>>

\* AuthService.verifySignature
verifySignature(request, timestamp, apiSecret, providedSignature) ==
  LET message == <<timestamp, request.method, request.url>>
                   \o BodyText(request.body)
      expectedSignature == HmacSha256Hex(apiSecret, message)
  IN  expectedSignature = providedSignature

\* --- header values
MissingHeader == [kind |-> "missing", n |-> 0]
NaNHeader == [kind |-> "nan", n |-> 0]    \* text parseInt turns into NaN
IntHeader(n) == [kind |-> "int", n |-> n] \* the decimal text of n
\* the decimal text of n followed by text that is no digit ("1200abc")
PrefixedHeader(n) == [kind |-> "prefixed", n |-> n]

\* !timestamp
HeaderAbsent(h) == h.kind = "missing"

\* isNaN(parseInt(timestamp))
ParsesNaN(h) == h.kind \notin {"int", "prefixed"}

\* parseInt reads the leading digits and ignores what follows them.
parseInt(h) == h.n

\* Math.abs(currentTime - requestTime) > this.TIME_WINDOW
OutsideWindowOneSided(currentTime, requestTime) ==
  currentTime - requestTime > TIME_WINDOW

\* An envelope whose timestamp is too far in the future only is refused.
OutsideWindowFuture(currentTime, requestTime) ==
  requestTime - currentTime > TIME_WINDOW

OutsideWindow(currentTime, requestTime) ==
  Abs(currentTime - requestTime) > TIME_WINDOW

\* --- the provisioned identity and the keys callers present
TheApiKey == "key1"
TheSecret == "secret1"
OtherSecret == "secret2"
ApiKeyHeaders == {"", TheApiKey, "ghost"}
Statuses == {"active", "inactive", "suspended"}
PermChoices == {{}, {"read"}, {"read", "trade"}, {"admin"}}
RoutePermissions == {"read", "trade"}

NoUser == [id |-> 0, apiSecret |-> "", permissions |-> {}, status |-> "none"]

\* Database.getUserByApiKey:
\*   SELECT * FROM users WHERE api_key = $1 AND status = 'active'
dbGetUserByApiKey(apiKey) ==
  IF apiKey = TheApiKey /\ auStatus = "active"
    THEN [id |-> 1, apiSecret |-> TheSecret, permissions |-> auPerms,
          status |-> auStatus]
    ELSE NoUser

\* The status the Record Store holds for the identity a key names.
StoreStatus(apiKey) == IF apiKey = TheApiKey THEN auStatus ELSE "none"

\* cacheService.get(user:<apiKey>): an entry past its expiry is gone.
cacheGetUser(apiKey) ==
  IF apiKey = TheApiKey /\ auCache # NoUser /\ auNow < auCacheExp
    THEN auCache ELSE NoUser

\* AuthService.checkPermission
checkPermissionNoAdmin(userPermissions, requiredPermission) ==
  requiredPermission \in userPermissions

checkPermission(userPermissions, requiredPermission) ==
  requiredPermission \in userPermissions \/ "admin" \in userPermissions

AuUrl == "/api/v1/trade/order"
AuOffsets == {-(TIME_WINDOW + 1), -TIME_WINDOW, 0, TIME_WINDOW, TIME_WINDOW + 1}

Request(k, ts, body, sg) ==
  [apiKey |-> k, timestamp |-> ts, method |-> "POST", url |-> AuUrl,
   body |-> body, signature |-> sg]

\* The signature a client computes that signs the text `text` with `sec`.
ClientSig(ts, text, sec) == generateSignature(ts, "POST", AuUrl, text, sec)

\* The requests callers send at the present time.  For the provisioned key:
\* at every timestamp offset a request without body, signed with the
\* identity's secret or with another; at offset 0 a request with a body,
\* signed over the body text the server rebuilds (with either secret) or over
\* the raw body.  For an unknown key one request, and one request per missing
\* or unparsable header.
AuRequests ==
  LET now == IntHeader(auNow)
      good == ClientSig(now, <<>>, TheSecret)
      withBody == StrVal(<<"a">>)
  IN  {Request(TheApiKey, IntHeader(auNow + d), Undefined,
               ClientSig(IntHeader(auNow + d), <<>>, sec)) :
         d \in AuOffsets, sec \in {TheSecret, OtherSecret}}
      \cup {Request(TheApiKey, now, withBody, sg) :
              sg \in {ClientSig(now, BodyText(withBody), TheSecret),
                      ClientSig(now, BodyText(withBody), OtherSecret),
                      ClientSig(now, BodyTextRaw(withBody), TheSecret)}}
      \cup {Request("ghost", now, Undefined, good),
            Request("", now, Undefined, good),
            Request(TheApiKey, MissingHeader, Undefined, good),
            Request(TheApiKey, NaNHeader, Undefined, good),
            Request(TheApiKey, PrefixedHeader(auNow), Undefined,
                    ClientSig(PrefixedHeader(auNow), <<>>, TheSecret)),
            Request(TheApiKey, now, Undefined, <<>>)}

\* "The correct signature" of a request: HMAC-SHA256 under the secret of the
\* identity its key names, over timestamp, method, path and the body text.
CorrectSignature(req) ==
  /\ req.apiKey = TheApiKey
  /\ req.signature = generateSignature(req.timestamp, req.method, req.url,
                                       BodyText(req.body), TheSecret)

StoreFaults == {"none", "cache-get", "db", "cache-set"}

\* What is kept of a call: tsKind/delta describe the timestamp header
\* (delta = now - timestamp), sig whether the signature was missing, correct
\* or wrong, storeStatus the identity's status in the store during the call.
NoAuth == [called |-> FALSE, apiKey |-> "", tsKind |-> "missing", delta |-> 0,
           sig |-> "missing", storeStatus |-> "none",
           fault |-> FALSE, lookedUp |-> FALSE, source |-> "none",
           error |-> "none", reason |-> "none", userId |-> 0,
           permissions |-> {}]

NoGate == [required |-> "none", outcome |-> "none"]

\* No envelope is kept for presenting again.
NoKept ==
  [envelope |-> Request("", MissingHeader, Undefined, <<>>), presented |-> 0]

AuthInit ==
  /\ auNow = 0
  /\ auStatus \in Statuses
  /\ auPerms \in PermChoices
  /\ auCache = NoUser
  /\ auCacheExp = 0
  /\ auLast = NoAuth
  /\ auGate = NoGate
  /\ auKept = NoKept

\* The group's value under the other specifications.
AuthIdle ==
  /\ auNow = 0 /\ auStatus = "active" /\ auPerms = {}
  /\ auCache = NoUser /\ auCacheExp = 0 /\ auLast = NoAuth /\ auGate = NoGate
  /\ auKept = NoKept

\* A resolution that falls back to the Record Store when the cache lookup
\* fails.
GetUserFallingBack(apiKey, fault) ==
  IF fault # "cache-get" /\ cacheGetUser(apiKey) # NoUser
    THEN [user |-> cacheGetUser(apiKey), source |-> "cache", error |-> "none",
          cached |-> FALSE]
  ELSE IF fault = "db"
    THEN [user |-> NoUser, source |-> "none", error |-> "DatabaseError",
          cached |-> FALSE]
  ELSE [user |-> dbGetUserByApiKey(apiKey), source |-> "store",
        error |-> "none", cached |-> FALSE]

\* A resolution that goes to the Record Store every time.
GetUserSkippingCache(apiKey, fault) ==
  IF fault = "cache-get"
    THEN [user |-> NoUser, source |-> "none", error |-> "CacheError",
          cached |-> FALSE]
  ELSE IF fault = "db"
    THEN [user |-> NoUser, source |-> "none", error |-> "DatabaseError",
          cached |-> FALSE]
  ELSE [user |-> dbGetUserByApiKey(apiKey), source |-> "store",
        error |-> "none", cached |-> dbGetUserByApiKey(apiKey) # NoUser]

\* AuthService.getUserByApiKey with the store operation that fails, if any:
\* the User (or NoUser), where it came from, the error raised, and whether
\* the cache entry was written.
GetUserByApiKey(apiKey, fault) ==
  IF fault = "cache-get"
    THEN [user |-> NoUser, source |-> "none", error |-> "CacheError",
          cached |-> FALSE]
  ELSE IF cacheGetUser(apiKey) # NoUser
    THEN [user |-> cacheGetUser(apiKey), source |-> "cache", error |-> "none",
          cached |-> FALSE]
  ELSE IF fault = "db"
    THEN [user |-> NoUser, source |-> "none", error |-> "DatabaseError",
          cached |-> FALSE]
  ELSE IF dbGetUserByApiKey(apiKey) = NoUser
    THEN [user |-> NoUser, source |-> "store", error |-> "none",
          cached |-> FALSE]
  ELSE IF fault = "cache-set"
    THEN [user |-> NoUser, source |-> "none", error |-> "CacheError",
          cached |-> FALSE]
  ELSE [user |-> dbGetUserByApiKey(apiKey), source |-> "store",
        error |-> "none", cached |-> TRUE]

\* AuthService.authenticateRequest, as the result record of one call.
AuthResult(req, fault) ==
  LET base == [NoAuth EXCEPT
                 !.called = TRUE, !.apiKey = req.apiKey,
                 !.tsKind = req.timestamp.kind,
                 !.delta = IF ParsesNaN(req.timestamp) THEN 0
                           ELSE auNow - parseInt(req.timestamp),
                 !.sig = IF req.signature = <<>> THEN "missing"
                         ELSE IF CorrectSignature(req) THEN "correct"
                         ELSE "wrong",
                 !.storeStatus = StoreStatus(req.apiKey)]
      deny(reason) == [base EXCEPT !.error = "AuthenticationError",
                                   !.reason = reason]
      \* from here on getUserByApiKey has been called
      looked == [base EXCEPT !.lookedUp = TRUE]
      denyKnown(reason) == [looked EXCEPT !.error = "AuthenticationError",
                                          !.reason = reason]
      got == GetUserByApiKey(req.apiKey, fault)
  IN  IF req.apiKey = "" \/ HeaderAbsent(req.timestamp) \/ req.signature = <<>>
        THEN deny("missing-credentials")
      ELSE IF ParsesNaN(req.timestamp) THEN deny("bad-timestamp")
      ELSE IF OutsideWindow(auNow, parseInt(req.timestamp))
        THEN deny("stale-or-future")
      ELSE IF got.error # "none"
        THEN [looked EXCEPT !.error = got.error, !.fault = TRUE]
      ELSE IF got.user = NoUser
        THEN [denyKnown("invalid-identity") EXCEPT !.source = got.source]
      ELSE IF got.user.status # "active"
        THEN [denyKnown("inactive-identity") EXCEPT !.source = got.source]
      ELSE IF ~verifySignature(req, req.timestamp, got.user.apiSecret,
                               req.signature)
        THEN [denyKnown("bad-signature") EXCEPT !.source = got.source]
      ELSE [looked EXCEPT !.source = got.source, !.userId = got.user.id,
                          !.permissions = got.user.permissions]

\* One authenticateRequest call, start to end.  The cache entry is written
\* on a store hit whatever the later checks decide.
AuthenticateCall(req, fault) ==
  LET res == AuthResult(req, fault)
      reached == res.reason \notin {"missing-credentials", "bad-timestamp",
                                    "stale-or-future"}
      got == GetUserByApiKey(req.apiKey, fault)
  IN  /\ auLast' = res
      /\ auGate' = NoGate
      /\ IF reached /\ got.cached
           THEN /\ auCache' = got.user
                /\ auCacheExp' = auNow + UserCacheTtl * 1000
           ELSE UNCHANGED <<auCache, auCacheExp>>
      /\ UNCHANGED <<auNow, auStatus, auPerms>>

\* authMiddleware on a request of the present time.
Authenticate(req, fault) ==
  /\ AuthenticateCall(req, fault)
  /\ UNCHANGED auKept
  /\ UNCHANGED notAu

\* requirePermission(permission) on the request authMiddleware has handled.
RequirePermission(permission) ==
  /\ auLast.called
  /\ auGate = NoGate
  /\ auGate' = [required |-> permission,
                outcome |->
                  IF auLast.error # "none" THEN "AuthenticationError"
                  ELSE IF ~checkPermission(auLast.permissions, permission)
                    THEN "AuthorizationError"
                  ELSE "pass"]
  /\ UNCHANGED <<auNow, auStatus, auPerms, auCache, auCacheExp, auLast,
                 auKept>>
  /\ UNCHANGED notAu

\* Administrative provisioning changes the identity's status in the store.
SetUserStatus(st) ==
  /\ auStatus # st
  /\ auStatus' = st
  /\ UNCHANGED <<auNow, auPerms, auCache, auCacheExp, auLast, auGate,
                 auKept>>
  /\ UNCHANGED notAu

AuTick ==
  /\ auNow < AuMaxTicks * AuTickMs
  /\ auNow' = auNow + AuTickMs
  /\ IF auCache # NoUser /\ auCacheExp <= auNow + AuTickMs
       THEN auCache' = NoUser /\ auCacheExp' = 0
       ELSE UNCHANGED <<auCache, auCacheExp>>
  /\ UNCHANGED <<auStatus, auPerms, auLast, auGate, auKept>>
  /\ UNCHANGED notAu

AuthNext ==
  \/ \E req \in AuRequests, fault \in StoreFaults : Authenticate(req, fault)
  \/ \E perm \in RoutePermissions : RequirePermission(perm)
  \/ \E st \in Statuses : SetUserStatus(st)
  \/ AuTick

\* The call kept in auLast had a timestamp at most 300000 ms away from the
\* verifier's clock, named an identity that is active in the Record
\* Store, and carried the correct signature.
AuWithinWindowGood ==
  /\ auLast.called
  /\ auLast.tsKind = "int"
  /\ Abs(auLast.delta) <= 300000
  /\ auLast.storeStatus = "active"
  /\ auLast.sig = "correct"

\* The call kept in auLast had a timestamp more than 300000 ms away.
AuOutsideWindow ==
  /\ auLast.called
  /\ auLast.tsKind = "int"
  /\ Abs(auLast.delta) > 300000

AuMissingCredentials ==
  /\ auLast.called
  /\ auLast.apiKey = "" \/ auLast.tsKind = "missing" \/ auLast.sig = "missing"

\* The timestamp of the call kept in auLast is not the text of an integer.
AuTimestampNotInteger == auLast.called /\ auLast.tsKind # "int"

\* C21: a request missing the caller identifier, the timestamp or the
\* signature is rejected with AuthenticationError, and so is a request whose
\* timestamp is not the text of an integer or lies outside the window, in
\* each case before any cache or Record Store lookup of the identity.
C21_RejectedBeforeLookup ==
  (AuMissingCredentials \/ AuTimestampNotInteger \/ AuOutsideWindow)
  => /\ auLast.error = "AuthenticationError"
     /\ ~auLast.lookedUp

\* C5, for calls whose store operations all succeed: authenticateRequest
\* fails with AuthenticationError for an identity whose status in the Record
\* Store is inactive or suspended at the time of the request, whether the
\* identity is resolved from the cache or from the store.
C5_InactiveRejected ==
  (/\ auLast.called
   /\ ~auLast.fault
   /\ auLast.storeStatus \in {"inactive", "suspended"})
  => auLast.error = "AuthenticationError"

\* C6: a request passes requirePermission(p) if and only if the
\* authenticated permission set contains p or admin, and is refused with
\* AuthorizationError otherwise.
C6_PermissionGate ==
  (auGate # NoGate /\ auLast.error = "none") =>
    /\ auGate.outcome = "pass" <=>
         (auGate.required \in auLast.permissions
            \/ "admin" \in auLast.permissions)
    /\ auGate.outcome # "pass" => auGate.outcome = "AuthorizationError"

\* An identity holding only read presents a valid signature to a trade-only
\* route and is refused with AuthorizationError.
C6_Witness ==
  /\ auLast.called
  /\ auLast.error = "none"
  /\ auLast.sig = "correct"
  /\ auLast.permissions = {"read"}
  /\ auGate.required = "trade"
  /\ auGate.outcome = "AuthorizationError"

\* A step that is one authenticateRequest call which came to resolve the
\* identity.
ResolvesIdentity ==
  /\ auNow' = auNow /\ auStatus' = auStatus /\ auGate' = NoGate
  /\ auLast'.called /\ auLast'.lookedUp

\* The cache holds a live entry for the key of that call.
CacheHit ==
  auLast'.apiKey = "key1" /\ auCache # NoUser /\ auNow < auCacheExp

\* C36: identity resolution consults the cache first. On a hit the cached
\* identity is served and the Record Store is not queried; on a miss the
\* Record Store is queried and a found identity is written to the cache
\* with a lifetime of 300 seconds; an entry is served only before its
\* expiry, never more than 5 minutes after it was read from the store.
C36_CacheFirstBoundedFreshness ==
  [][/\ (ResolvesIdentity /\ CacheHit /\ auLast'.error # "CacheError")
          => /\ auLast'.source = "cache"
             /\ auLast'.error # "DatabaseError"
             /\ auLast'.error = "none"
                  => /\ auLast'.userId = auCache.id
                     /\ auLast'.permissions = auCache.permissions
             /\ auNow - (auCacheExp - 300 * 1000) < 5 * 60 * 1000
             /\ UNCHANGED <<auCache, auCacheExp>>
     /\ (ResolvesIdentity /\ ~CacheHit /\ ~auLast'.fault)
          => /\ auLast'.source = "store"
             /\ IF auLast'.apiKey = "key1" /\ auStatus = "active"
                  THEN /\ auCache' = [id |-> 1, apiSecret |-> "secret1",
                                      permissions |-> auPerms,
                                      status |-> "active"]
                       /\ auCacheExp' = auNow + 300 * 1000
                  ELSE UNCHANGED <<auCache, auCacheExp>>
     /\ (auCache' # auCache /\ auCache' # NoUser)
          => ResolvesIdentity /\ ~CacheHit]_vars

\* The identity is served from the cache 150 seconds after it was read
\* from the Record Store, where it has been suspended in the meantime.
C36_Witness ==
  /\ auLast.called /\ auLast.source = "cache" /\ auLast.error = "none"
  /\ auLast.userId = 1
  /\ auCache # NoUser /\ auCacheExp - auNow = 150000
  /\ auStatus = "suspended"

----------------------------------------------------------------------------
(***************************************************************************)
(* AN ACCEPTED ENVELOPE PRESENTED AGAIN                                    *)
(*                                                                         *)
(* A caller (or an eavesdropper) keeps the first envelope                   *)
(* authenticateRequest accepts and presents the same headers and body      *)
(* again while the verifier's clock advances.                              *)
(***************************************************************************)
MaxPresented == 3     \* the kept envelope is presented at most this often

\* The envelopes presented for the first time: signed by the identity with
\* its secret, at each timestamp offset from the present time.
ReplayRequests ==
  {Request(TheApiKey, IntHeader(auNow + d), Undefined,
           ClientSig(IntHeader(auNow + d), <<>>, TheSecret)) : d \in AuOffsets}

ReplayInit ==
  /\ AuthInit
  /\ auPerms = {"read", "trade"}

\* An envelope is presented for the first time; the caller keeps it if it
\* is accepted.
AuPresent(fault) ==
  /\ auKept = NoKept
  /\ \E req \in ReplayRequests :
       /\ AuthenticateCall(req, fault)
       /\ auKept' = IF AuthResult(req, fault).error = "none"
                      THEN [envelope |-> req, presented |-> 1]
                      ELSE NoKept
  /\ UNCHANGED notAu

\* The kept envelope is presented again, unchanged.
AuReplay(fault) ==
  /\ auKept # NoKept
  /\ auKept.presented < MaxPresented
  /\ AuthenticateCall(auKept.envelope, fault)
  /\ auKept' = [auKept EXCEPT !.presented = @ + 1]
  /\ UNCHANGED notAu

ReplayNext ==
  \/ \E fault \in StoreFaults : AuPresent(fault)
  \/ \E fault \in StoreFaults : AuReplay(fault)
  \/ \E st \in Statuses : SetUserStatus(st)
  \/ AuTick

\* A step that presents the kept envelope again.
Represented == auKept # NoKept /\ auKept'.presented = auKept.presented + 1

\* How far the verifier's clock is past the kept envelope's timestamp.
EnvelopeAge == auNow - auKept.envelope.timestamp.n

\* The lookup of the identity answers with an active identity: a live cache
\* entry, or the Record Store holding the identity as active.
ResolvesActive ==
  (auCache # NoUser /\ auNow < auCacheExp) \/ auStatus = "active"

----------------------------------------------------------------------------
(***************************************************************************)
(* REQUEST PIPELINE                                                        *)
(*                                                                         *)
(* One HTTP request through the preHandler hooks Fastify runs for its      *)
(* route and then through the route handler.  app.ts adds                  *)
(* rateLimitMiddleware on the root instance; tradeRoutes adds              *)
(* authMiddleware and requirePermission('trade') in its own plugin.  A     *)
(* route runs the hooks of the enclosing instance first and then those of  *)
(* its plugin, each once, in the order they were added; the chain ends as  *)
(* soon as a hook has sent the reply, and an error thrown by a hook goes   *)
(* to the error handler of app.ts, which replies 500.  The identity store  *)
(* and its cache are the au* variables.                                    *)
(***************************************************************************)
PlSlots == {1, 2}                   \* requests in flight
PlIps == {<<10, 0, 0, 1>>}

\* fastify.addHook('preHandler', rateLimitMiddleware)
RootPreHandlers == <<"rateLimitMiddleware">>

\* fastify.addHook('preHandler', ...) inside the plugin of the route
PluginPreHandlers(plugin) ==
  IF plugin = "tradeRoutes"
    THEN <<"authMiddleware", "requirePermission">>
    ELSE <<>>

\* POST /api/v1/trade/order of tradeRoutes, GET /api/v1/time of app.ts
PlRoutes ==
  {[url |-> Path(<<"api", "v1", "trade", "order">>), plugin |-> "tradeRoutes"],
   [url |-> Path(<<"api", "v1", "time">>), plugin |-> "root"]}

NoRoute == [url |-> <<>>, plugin |-> "none"]

\* The preHandler hooks of a route, in the order they run.
preHandlers(route) == RootPreHandlers \o PluginPreHandlers(route.plugin)

\* The route requires authentication: authMiddleware is one of its hooks.
RequiresAuthentication(route) ==
  \E i \in 1..Len(preHandlers(route)) :
    preHandlers(route)[i] = "authMiddleware"

\* The credentials a request carries: signed with the identity's secret,
\* signed with another secret, or without signature.
PlHeaders ==
  {Request(TheApiKey, IntHeader(auNow), Undefined,
           ClientSig(IntHeader(auNow), <<>>, sec)) :
     sec \in {TheSecret, OtherSecret}}
  \cup {Request(TheApiKey, IntHeader(auNow), Undefined, <<>>)}

NoHeaders == Request("", MissingHeader, Undefined, <<>>)

\* request.auth: { userId, permissions }, userId 0 while it is not attached
NoAuthData == [userId |-> 0, permissions |-> {}]

\* rateLimitMiddleware: 429 is sent when checkRateLimit throws
\* RateLimitError, nothing otherwise (0: no reply sent).
RateLimitReplyNever(raised) == 0

RateLimitReply(raised) == IF raised THEN 429 ELSE 0

\* authMiddleware: 401 for AuthenticationError, 500 for any other error
AuthReply(error) ==
  IF error = "none" THEN 0
  ELSE IF error = "AuthenticationError" THEN 401 ELSE 500

\* fastify.setErrorHandler: reply.status(500)
ErrorHandlerReply == 500

PlEndpoints == {normalizeEndpoint(route.url) : route \in PlRoutes}
PlScopeKeys ==
  {getRateLimitKey(n, e) : n \in {0, 1, 10}, e \in PlEndpoints}
PlGlobalKeys == {getGlobalRateLimitKey(ip) : ip \in PlIps}

\* stage: "idle", "preHandler", "done"; pos: the hook to run next;
\* reply: the status sent, 0 before; authAtLimit: request.auth was attached
\* when rateLimitMiddleware ran; scopeKeys, globalKeys: the counters it
\* incremented; limitRuns, authRuns, handlerRuns, orderOps: how often the
\* admission check, authenticateRequest, the route handler and
\* orderService.createOrder ran for the request.
IdlePl ==
  [stage |-> "idle", route |-> NoRoute, headers |-> NoHeaders, ip |-> <<>>,
   pos |-> 0, auth |-> NoAuthData, reply |-> 0,
   authAtLimit |-> FALSE, scopeKeys |-> {}, globalKeys |-> {},
   denied |-> FALSE, authError |-> "none", cacheFault |-> FALSE,
   limitRuns |-> 0, authRuns |-> 0, handlerRuns |-> 0, orderOps |-> 0]

\* The counters of the window so far: empty, or the counter that requests
\* from 10.0.0.1 to the order route increment has reached its limit.
PlStartCounts ==
  {{}, {getRateLimitKey(10, Path(<<"api", "v1", "trade", "order">>))}}

PipelineInit ==
  /\ \E full \in PlStartCounts :
       plCount =
         [scope |-> [k \in PlScopeKeys |->
                       IF k \in full THEN getConfig(k[3]).maxRequests ELSE 0],
          global |-> [k \in PlGlobalKeys |-> 0]]
  /\ plReq = [p \in PlSlots |-> IdlePl]

PipelineIdle ==
  /\ plCount = [scope |-> [k \in PlScopeKeys |-> 0],
                global |-> [k \in PlGlobalKeys |-> 0]]
  /\ plReq = [p \in PlSlots |-> IdlePl]

\* The request after a hook: finished when the reply was sent, else at the
\* next hook.
AfterHook(r) ==
  IF r.reply # 0 THEN [r EXCEPT !.stage = "done"]
  ELSE [r EXCEPT !.pos = r.pos + 1]

\* The hook Fastify runs next for the request is `hook`.
AtHook(p, hook) ==
  /\ plReq[p].stage = "preHandler"
  /\ plReq[p].pos <= Len(preHandlers(plReq[p].route))
  /\ preHandlers(plReq[p].route)[plReq[p].pos] = hook

\* A request arrives and is routed.
PlArrive(p, route, ip) ==
  /\ plReq[p].stage = "idle"
  /\ \E headers \in PlHeaders :
       plReq' = [plReq EXCEPT ![p] =
         [IdlePl EXCEPT !.stage = "preHandler", !.route = route,
                        !.headers = headers, !.ip = ip, !.pos = 1]]
  /\ UNCHANGED plCount
  /\ UNCHANGED notPl

\* rateLimitMiddleware: checkRateLimit with both of its checkLimit calls.
PlRateLimit(p) ==
  /\ AtHook(p, "rateLimitMiddleware")
  /\ LET r == plReq[p]
         endpoint == normalizeEndpoint(r.route.url)
         config == getConfig(endpoint)
         isAuthenticated == r.auth.userId # 0
         identifier == IF isAuthenticated THEN <<r.auth.userId>>
                       ELSE getClientIP(r)
         scopeKey == ScopeRateLimitKey(identifier, endpoint)
         globalKey == getGlobalRateLimitKey(identifier)
     IN  \E scopeFault \in AdFaults(plCount.scope[scopeKey] + 1, config) :
           LET scope == checkLimit(plCount.scope[scopeKey], config,
                                   scopeFault)
               checksGlobal == ~isAuthenticated /\ ~scope.raised
           IN  \E globalFault \in
                    IF checksGlobal
                      THEN AdFaults(plCount.global[globalKey] + 1,
                                    globalConfig)
                      ELSE {"none"} :
                 LET global == checkLimit(plCount.global[globalKey],
                                          globalConfig, globalFault)
                     raised == scope.raised \/ (checksGlobal /\ global.raised)
                 IN  /\ plCount' =
                          [scope |-> [plCount.scope EXCEPT
                                        ![scopeKey] = scope.count],
                           global |-> IF checksGlobal
                                        THEN [plCount.global EXCEPT
                                                ![globalKey] = global.count]
                                        ELSE plCount.global]
                     /\ plReq' = [plReq EXCEPT ![p] = AfterHook(
                          [r EXCEPT
                             !.limitRuns = @ + 1,
                             !.authAtLimit = isAuthenticated,
                             !.scopeKeys =
                               IF scope.count # plCount.scope[scopeKey]
                                 THEN {scopeKey} ELSE {},
                             !.globalKeys =
                               IF checksGlobal
                                  /\ global.count # plCount.global[globalKey]
                                 THEN {globalKey} ELSE {},
                             !.denied = raised,
                             !.reply = RateLimitReply(raised)])]
  /\ UNCHANGED notPl

\* authMiddleware: authenticateRequest, then request.auth = authData or the
\* error reply.  The cache entry is written as in Authenticate.
PlAuth(p, fault) ==
  /\ AtHook(p, "authMiddleware")
  /\ LET r == plReq[p]
         res == AuthResult(r.headers, fault)
         got == GetUserByApiKey(r.headers.apiKey, fault)
     IN  /\ plReq' = [plReq EXCEPT ![p] = AfterHook(
              [r EXCEPT !.authRuns = @ + 1,
                        !.authError = res.error,
                        !.cacheFault = res.lookedUp /\ fault = "cache-get",
                        !.auth = IF res.error = "none"
                                   THEN [userId |-> res.userId,
                                         permissions |-> res.permissions]
                                   ELSE NoAuthData,
                        !.reply = AuthReply(res.error)])]
         /\ IF res.lookedUp /\ got.cached
              THEN /\ auCache' = got.user
                   /\ auCacheExp' = auNow + UserCacheTtl * 1000
              ELSE UNCHANGED <<auCache, auCacheExp>>
  /\ UNCHANGED <<plCount, auNow, auStatus, auPerms, auLast, auGate, auKept>>
  /\ UNCHANGED <<rlVars, adVars, sgVars, rtVars, odVars, vnVars>>

\* requirePermission('trade'): throws AuthenticationError without
\* request.auth and AuthorizationError without the permission.
PlPermission(p) ==
  /\ AtHook(p, "requirePermission")
  /\ LET r == plReq[p]
         thrown == \/ r.auth.userId = 0
                   \/ ~checkPermission(r.auth.permissions, "trade")
     IN  plReq' = [plReq EXCEPT ![p] = AfterHook(
           [r EXCEPT !.reply = IF thrown THEN ErrorHandlerReply ELSE 0])]
  /\ UNCHANGED plCount
  /\ UNCHANGED notPl

\* The route handler, after the last hook: the order route calls
\* orderService.createOrder with auth.userId.
PlHandler(p) ==
  /\ plReq[p].stage = "preHandler"
  /\ plReq[p].pos = Len(preHandlers(plReq[p].route)) + 1
  /\ plReq' = [plReq EXCEPT ![p] =
       [@ EXCEPT !.stage = "done", !.reply = 200,
                 !.handlerRuns = @ + 1,
                 !.orderOps = IF plReq[p].route.plugin = "tradeRoutes"
                                   /\ plReq[p].auth.userId # 0
                                THEN @ + 1 ELSE @]]
  /\ UNCHANGED plCount
  /\ UNCHANGED notPl

PipelineNext ==
  \E p \in PlSlots :
    \/ \E route \in PlRoutes, ip \in PlIps : PlArrive(p, route, ip)
    \/ PlRateLimit(p)
    \/ \E fault \in {"none", "db", "cache-get"} : PlAuth(p, fault)
    \/ PlPermission(p)
    \/ PlHandler(p)

\* ---- properties of the pipeline
\* C23: for every request to a route that requires authentication, the
\* admission check runs after authentication has resolved the identity, so
\* that its counter is keyed by the caller's identity and not by the source
\* address.
C23_AdmissionAfterAuthentication ==
  \A p \in PlSlots :
    (RequiresAuthentication(plReq[p].route) /\ plReq[p].limitRuns > 0)
    => /\ plReq[p].authAtLimit
       /\ plReq[p].authRuns > 0
       /\ plReq[p].scopeKeys \subseteq
            {getRateLimitKey(1, normalizeEndpoint(plReq[p].route.url))}
       /\ plReq[p].globalKeys = {}

\* C24: when authentication fails or admission is denied for a request, no
\* route handler and no OrderService operation is executed for that request,
\* and the failed check is not run again.
C24_AbortBeforeBusinessLogic ==
  \A p \in PlSlots :
    (plReq[p].authError # "none" \/ plReq[p].denied)
    => /\ plReq[p].handlerRuns = 0
       /\ plReq[p].orderOps = 0
       /\ plReq[p].authRuns <= 1
       /\ plReq[p].limitRuns <= 1
       /\ plReq[p].stage = "done"

\* One request was denied admission with 429 and another failed
\* authentication with 401; both are finished and neither reached a handler.
C24_Witness ==
  \E p, q \in PlSlots :
    /\ plReq[p].stage = "done" /\ plReq[p].denied /\ plReq[p].reply = 429
    /\ plReq[p].handlerRuns = 0
    /\ plReq[q].stage = "done" /\ plReq[q].authError = "AuthenticationError"
    /\ plReq[q].reply = 401 /\ plReq[q].handlerRuns = 0

----------------------------------------------------------------------------
(***************************************************************************)
(* SIGN, THEN VERIFY                                                       *)
(*                                                                         *)
(* A client signs timestamp+method+path+body with generateSignature; the   *)
(* server runs verifySignature on the request that carries that body.      *)
(***************************************************************************)
SgSecrets == {TheSecret, OtherSecret}
SgTimestamps == {IntHeader(1640995200), IntHeader(1640995201)}
SgMethods == {"GET", "POST"}
SgBodies == {Undefined, StrVal(<<>>), StrVal(<<"a">>), StrVal(<<"a", "b">>)}

\* How the body reaches the server.  "value": request.body is the very
\* string that was signed (auth.test.ts builds
\*   body ? JSON.parse(JSON.stringify(body)) : undefined ).
\* "json": the signed body is the JSON text of the value and request.body is
\* what the framework's JSON parser makes of that text.
SgWires == {"value", "json"}

\* The body string handed to generateSignature.
SgSignedBody(in) ==
  IF in.body = Undefined THEN <<>>
  ELSE IF in.wire = "value" THEN in.body.s
  ELSE JSONStringify(in.body)

\* request.body as verifySignature finds it.
SgRequestBody(in) ==
  IF in.wire = "value"
    THEN IF Truthy(in.body) THEN JSONParse(JSONStringify(in.body))
         ELSE Undefined
  ELSE IF SgSignedBody(in) = <<>> THEN Undefined
  ELSE JSONParse(SgSignedBody(in))

SgInputs ==
  [secret : SgSecrets, verifySecret : SgSecrets, timestamp : SgTimestamps,
   method : SgMethods, path : {AuUrl}, body : SgBodies, wire : SgWires]

SignInit ==
  /\ sgIn \in SgInputs
  /\ sgSig = <<>>
  /\ sgVerdict = "none"
  /\ sgPc = "start"

SignIdle ==
  /\ sgIn = [secret |-> TheSecret, verifySecret |-> TheSecret,
             timestamp |-> IntHeader(1640995200), method |-> "GET",
             path |-> AuUrl, body |-> Undefined, wire |-> "value"]
  /\ sgSig = <<>>
  /\ sgVerdict = "none"
  /\ sgPc = "start"

\* authService.generateSignature(timestamp, method, path, body, apiSecret)
SgSign ==
  /\ sgPc = "start"
  /\ sgSig' = generateSignature(sgIn.timestamp, sgIn.method, sgIn.path,
                                SgSignedBody(sgIn), sgIn.secret)
  /\ sgPc' = "signed"
  /\ UNCHANGED <<sgIn, sgVerdict>>
  /\ UNCHANGED notSg

\* authService.verifySignature(request, timestamp, apiSecret, signature)
SgVerify ==
  /\ sgPc = "signed"
  /\ sgVerdict' =
       IF verifySignature([method |-> sgIn.method, url |-> sgIn.path,
                           body |-> SgRequestBody(sgIn)],
                          sgIn.timestamp, sgIn.verifySecret, sgSig)
         THEN "accepted" ELSE "rejected"
  /\ sgPc' = "verified"
  /\ UNCHANGED <<sgIn, sgSig>>
  /\ UNCHANGED notSg

SignNext == SgSign \/ SgVerify

\* C4: for every secret, timestamp, method, path and body, a signature
\* produced by generateSignature over timestamp+method+path+body is accepted
\* by verifySignature for a request with the same method, path and body under
\* the same secret, and is rejected under any different secret.
C4_SignThenVerify ==
  sgPc = "verified" =>
    (sgVerdict = "accepted" <=> sgIn.verifySecret = sgIn.secret)

----------------------------------------------------------------------------
(***************************************************************************)
(* RETRY POLICY                                                            *)
(*                                                                         *)
(* An error message is a sequence of words; String.includes is "occurs as  *)
(* a run of consecutive words", String.toLowerCase maps word by word.      *)
(* Chinese texts are written in pinyin.                                    *)
(***************************************************************************)
ScriptLen == 4        \* venue answers scripted per retryOperation call

\* retryOperation(operation, maxRetries = 3, baseDelay = 1000)
maxRetries == 3
baseDelay == 1000

\* String.prototype.toLowerCase, on the words the venue uses
LowerWord(w) ==
  CASE w = "Network" -> "network"
    [] w = "Insufficient" -> "insufficient"
    [] w = "Invalid" -> "invalid"
    [] w = "Balance" -> "balance"
    [] OTHER -> w

toLowerCase(message) == [i \in DOMAIN message |-> LowerWord(message[i])]

\* String.prototype.includes
includes(message, part) ==
  \E i \in 1..(Len(message) - Len(part) + 1) :
    SubSeq(message, i, i + Len(part) - 1) = part

\* The messages of the errors the venue's client library raises.
VenueMessages ==
  {<<"Network", "timeout">>,
   <<"connection", "failed">>,
   <<"Insufficient", "balance">>,
   <<"Invalid", "symbol">>,
   <<"invalid", "order">>}

VenueAnswers == {<<"ok">>} \cup VenueMessages

\* new InsufficientBalanceError('余额不足', ...)
InsufficientBalanceError ==
  [class |-> "InsufficientBalanceError", message |-> <<"YuEBuZu">>]

\* new ExchangeError(`订单创建失败: ${message}`, ...)
ExchangeError(message) ==
  [class |-> "ExchangeError",
   message |-> <<"DingDanChuangJianShiBai:">> \o message]

\* The Error the venue's client library raises
VenueError(message) == [class |-> "Error", message |-> message]

\* What the retried operation throws when the venue raises `message`:
\* createOrder's callback classifies and wraps, cancelOrder's lets it through.
OperationError(op, message) ==
  IF op = "createOrder"
    THEN IF \/ includes(toLowerCase(message), <<"insufficient">>)
            \/ includes(toLowerCase(message), <<"balance">>)
           THEN InsufficientBalanceError
           ELSE ExchangeError(message)
    ELSE VenueError(message)

\* ExchangeService.isNonRetryableError
OnlyBalanceStopsRetry(error) ==
  LET message == toLowerCase(error.message)
  IN  \/ includes(message, <<"insufficient">>)
      \/ includes(message, <<"balance">>)

isNonRetryableError(error) ==
  LET message == toLowerCase(error.message)
  IN  \/ includes(message, <<"insufficient">>)
      \/ includes(message, <<"balance">>)
      \/ includes(message, <<"invalid", "symbol">>)
      \/ includes(message, <<"invalid", "order">>)

\* for (let attempt = 1; attempt <= maxRetries; attempt++)
LoopExitsEarly(attempt) == attempt < maxRetries

LoopContinues(attempt) == attempt <= maxRetries

\* A backoff that starts at twice the base delay.
BackoffFromTwice(attempt) == baseDelay * 2 ^ attempt

\* const delay = baseDelay * Math.pow(2, attempt - 1)
BackoffDelay(attempt) == baseDelay * 2 ^ (attempt - 1)

Thrown(error) == [kind |-> "error", error |-> error]
Returned == [kind |-> "value", error |-> VenueError(<<>>)]

\* The loop of retryOperation from iteration `attempt` on: the number of
\* invocations of the operation, the delays slept, and what comes out.
RECURSIVE retryLoop(_, _, _, _, _)
retryLoop(op, script, attempt, delays, lastError) ==
  IF ~LoopContinues(attempt)
    THEN [calls |-> attempt - 1, delays |-> delays,
          result |-> Thrown(lastError)]
  ELSE IF script[attempt] = <<"ok">>
    THEN [calls |-> attempt, delays |-> delays, result |-> Returned]
  ELSE LET error == OperationError(op, script[attempt])
       IN  IF isNonRetryableError(error)
             THEN [calls |-> attempt, delays |-> delays,
                   result |-> Thrown(error)]
           ELSE IF attempt = maxRetries
             THEN [calls |-> attempt, delays |-> delays,
                   result |-> Thrown(error)]
           ELSE retryLoop(op, script, attempt + 1,
                          Append(delays, BackoffDelay(attempt)), error)

retryOperation(op, script) == retryLoop(op, script, 1, <<>>, VenueError(<<>>))

RtOps == {"createOrder", "cancelOrder"}
RtScripts == [1..ScriptLen -> VenueAnswers]
NoRun == [calls |-> 0, delays |-> <<>>, result |-> [kind |-> "none",
                                                    error |-> VenueError(<<>>)]]

RetryInit ==
  /\ rtOp \in RtOps
  /\ rtScript \in RtScripts
  /\ rtRun = NoRun

RetryIdle ==
  /\ rtOp = "cancelOrder"
  /\ rtScript = [i \in 1..ScriptLen |-> <<"ok">>]
  /\ rtRun = NoRun

\* One retryOperation call, start to end.
RtRun ==
  /\ rtRun = NoRun
  /\ rtRun' = retryOperation(rtOp, rtScript)
  /\ UNCHANGED <<rtOp, rtScript>>
  /\ UNCHANGED notRt

RetryNext == RtRun

\* Messages of transient failures: none of the phrases that stop retrying.
TransientMessages == {<<"Network", "timeout">>, <<"connection", "failed">>}

\* The attempt of the first scripted success, 0 if there is none.
FirstOk ==
  IF \E i \in 1..ScriptLen : rtScript[i] = <<"ok">>
    THEN CHOOSE i \in 1..ScriptLen :
           /\ rtScript[i] = <<"ok">>
           /\ \A j \in 1..(i - 1) : rtScript[j] # <<"ok">>
    ELSE 0

\* C10: for an operation that fails only with retryable errors,
\* retryOperation with maxAttempts = 3 invokes it exactly k times and returns
\* its result when the first success is on attempt k <= 3, otherwise invokes
\* it exactly 3 times and then propagates the last error; it never invokes
\* the operation more than 3 times.
C10_RetryUntilSuccessOrThree ==
  rtRun # NoRun =>
    /\ rtRun.calls <= 3
    /\ LET k == FirstOk
           failing == IF k \in 1..3 THEN 1..(k - 1) ELSE 1..3
       IN  (\A i \in failing : rtScript[i] \in TransientMessages) =>
             IF k \in 1..3
               THEN rtRun.calls = k /\ rtRun.result.kind = "value"
               ELSE /\ rtRun.calls = 3
                    /\ rtRun.result = Thrown(OperationError(rtOp, rtScript[3]))

\* Two transient failures, then success: three invocations, the result is
\* returned.
C10_Witness ==
  /\ rtRun # NoRun
  /\ rtScript[1] \in TransientMessages
  /\ rtScript[2] \in TransientMessages
  /\ rtScript[3] = <<"ok">>
  /\ rtRun.calls = 3
  /\ rtRun.result.kind = "value"

\* The venue's message says invalid symbol or invalid order.
InvalidRequestMessage(message) ==
  \/ includes(toLowerCase(message), <<"invalid", "symbol">>)
  \/ includes(toLowerCase(message), <<"invalid", "order">>)

\* C20: an operation failure whose message indicates invalid symbol or
\* invalid order is propagated by retryOperation at once: when it is the
\* first failure, after exactly one invocation, with no backoff delay and no
\* further attempt; when it follows k-1 transient failures, after exactly k
\* invocations and k-1 delays.
C20_InvalidRequestNotRetried ==
  rtRun # NoRun =>
    \A k \in 1..maxRetries :
      (/\ \A i \in 1..(k - 1) : rtScript[i] \in TransientMessages
       /\ rtScript[k] # <<"ok">>
       /\ InvalidRequestMessage(rtScript[k]))
      => /\ rtRun.calls = k
         /\ Len(rtRun.delays) = k - 1
         /\ rtRun.result = Thrown(OperationError(rtOp, rtScript[k]))

\* "invalid order" on the first invocation: one invocation, no delay, the
\* error thrown.
C20_Witness ==
  /\ rtRun # NoRun
  /\ rtScript[1] = <<"invalid", "order">>
  /\ rtRun.calls = 1
  /\ rtRun.delays = <<>>
  /\ rtRun.result.kind = "error"

\* C35: with baseDelay = 1000 ms, retryOperation waits 1000 x 2^(k-2) ms
\* before attempt k (1000 ms before attempt 2, 2000 ms before attempt 3),
\* waits before no first attempt and after no final attempt: a run of n
\* invocations has slept n - 1 times.
C35_BackoffDoubles ==
  rtRun # NoRun =>
    /\ Len(rtRun.delays) = rtRun.calls - 1
    /\ \A k \in 2..rtRun.calls : rtRun.delays[k - 1] = 1000 * 2 ^ (k - 2)

\* Three transient failures: three invocations, 1000 ms and 2000 ms slept,
\* the last error thrown with no further wait.
C35_Witness ==
  /\ rtRun # NoRun
  /\ \A i \in 1..3 : rtScript[i] \in TransientMessages
  /\ rtRun.calls = 3
  /\ rtRun.delays = <<1000, 2000>>
  /\ rtRun.result.kind = "error"

\* C9 (the part about ExchangeService.createOrder): when the venue's create
\* call fails with a message containing "insufficient balance", the caller
\* receives InsufficientBalanceError and the venue's create call was invoked
\* exactly once.
C9_InsufficientBalanceNotRetried ==
  (/\ rtRun # NoRun
   /\ rtOp = "createOrder"
   /\ includes(toLowerCase(rtScript[1]), <<"insufficient", "balance">>))
  => /\ rtRun.calls = 1
     /\ rtRun.result = Thrown(InsufficientBalanceError)

----------------------------------------------------------------------------
(***************************************************************************)
(* ORDER LIFECYCLE                                                         *)
(*                                                                         *)
(* Amounts and prices are counted in units of 10^-9, one digit finer than  *)
(* the DECIMAL(20, 8) columns that store them.  Fees are left out.         *)
(***************************************************************************)
OrderIds == {1}       \* ids of the rows the orders table may hold

OdProcs == {1, 2}     \* request tasks in flight
UserIds == {1, 2}

NoNumber == -1        \* undefined / NULL where a number is expected
NoText == <<>>        \* undefined / NULL where a text is expected

\* A value written to a DECIMAL(20, 8) column: rounded to 8 decimals.
Decimal8(x) == IF x = NoNumber THEN NoNumber ELSE ((x + 5) \div 10) * 10

\* ExchangeService.getSupportedExchanges(): the venues configured
SupportedExchanges == {"binance"}

\* CreateOrderRequest
OrderRequest(u, ex, ty, am, pr) ==
  [userId |-> u, exchange |-> ex, symbol |-> "BTC/USDT", side |-> "buy",
   type |-> ty, amount |-> am, price |-> pr]

OdRequests ==
  {OrderRequest(2, "binance", "limit", 20, 15),
   OrderRequest(1, "binance", "market", 20, NoNumber),
   OrderRequest(1, "binance", "limit", 20, NoNumber),
   OrderRequest(1, "okx", "limit", 20, 20),
   OrderRequest(1, "binance", "limit", 0, 20),
   OrderRequest(1, "binance", "stop", 20, 20),
   [OrderRequest(1, "binance", "limit", 20, 20) EXCEPT !.symbol = ""],
   [OrderRequest(1, "binance", "limit", 20, 20) EXCEPT !.side = "hold"]}

\* OrderService.validateOrderParams: TRUE when it raises ValidationError
validateWithoutVenueCheck(params) ==
  \/ params.symbol = ""
  \/ params.side \notin {"buy", "sell"}
  \/ params.type \notin {"limit", "market"}
  \/ params.amount = NoNumber \/ params.amount <= 0
  \/ (params.type = "limit" /\ (params.price = NoNumber \/ params.price <= 0))
  \/ params.exchange = ""

validateOrderParams(params) ==
  \/ params.symbol = ""
  \/ params.side \notin {"buy", "sell"}
  \/ params.type \notin {"limit", "market"}
  \/ params.amount = NoNumber \/ params.amount <= 0
  \/ (params.type = "limit" /\ (params.price = NoNumber \/ params.price <= 0))
  \/ params.exchange = ""
  \/ params.exchange \notin SupportedExchanges

NoUserRow == [id |-> 0, api_key |-> "none", status |-> "none",
              has_credentials |-> FALSE]

\* Database.getUserByApiKey:
\*   SELECT * FROM users WHERE api_key = $1 AND status = 'active'
odGetUserByApiKey(apiKey) ==
  IF \E u \in UserIds : odUsers[u].api_key = apiKey
                          /\ odUsers[u].status = "active"
    THEN odUsers[CHOOSE u \in UserIds : odUsers[u].api_key = apiKey
                                          /\ odUsers[u].status = "active"]
    ELSE NoUserRow

\* OrderService.getUserById: SELECT * FROM users WHERE id = $1
getUserById(userId) ==
  IF userId \in UserIds THEN odUsers[userId] ELSE NoUserRow

\* OrderService.getUserExchangeCredentials: TRUE when it raises
\* ValidationError
CredentialsMissing(user) == ~user.has_credentials

\* A mapping that reports every venue status as pending.
MapsAllToPending(exchangeStatus) == "pending"

\* OrderService.mapExchangeStatus: statusMap[exchangeStatus] || 'pending'.
\* statusMap is an object literal, so the lookup also finds what the literal
\* inherits from Object.prototype: for "__proto__" the prototype object, for
\* "constructor" the function Object, both truthy. They are written here as
\* the text the Record Store is handed for them.
InheritedKeys == {"__proto__", "constructor"}

mapExchangeStatus(exchangeStatus) ==
  CASE exchangeStatus = "open" -> "pending"
    [] exchangeStatus = "closed" -> "filled"
    [] exchangeStatus = "canceled" -> "canceled"
    [] exchangeStatus = "cancelled" -> "canceled"
    [] exchangeStatus = "rejected" -> "failed"
    [] exchangeStatus = "expired" -> "failed"
    [] exchangeStatus = "__proto__" -> "{}"
    [] exchangeStatus = "constructor" -> "function Object"
    [] OTHER -> "pending"

\* Database.createOrder: the row INSERT ... RETURNING * yields
InsertedRowUnsettled(id, orderData) ==
  [id |-> id, user_id |-> orderData.userId, exchange |-> orderData.exchange,
   exchange_order_id |-> "", symbol |-> orderData.symbol,
   side |-> orderData.side, type |-> orderData.type,
   price |-> Decimal8(orderData.price), amount |-> Decimal8(orderData.amount),
   filled |-> 0, status |-> "new", error |-> NoText]

InsertedRow(id, orderData) ==
  [id |-> id, user_id |-> orderData.userId, exchange |-> orderData.exchange,
   exchange_order_id |-> "", symbol |-> orderData.symbol,
   side |-> orderData.side, type |-> orderData.type,
   price |-> Decimal8(orderData.price), amount |-> Decimal8(orderData.amount),
   filled |-> 0, status |-> "pending", error |-> NoText]

\* Database.updateOrderStatus: the row UPDATE ... RETURNING * yields
\*   status = $2, filled = COALESCE($3, filled), error = COALESCE($6, error)
UpdatedRowClearingRemoteId(row, status, filled, error) ==
  [row EXCEPT !.status = status,
              !.filled = IF filled = NoNumber THEN @ ELSE Decimal8(filled),
              !.error = IF error = NoText THEN @ ELSE error,
              !.exchange_order_id = ""]

UpdatedRow(row, status, filled, error) ==
  [row EXCEPT !.status = status,
              !.filled = IF filled = NoNumber THEN @ ELSE Decimal8(filled),
              !.error = IF error = NoText THEN @ ELSE error]

\* Database.getOrderById(orderId, userId): the row, or NoRow
NoRow == [id |-> 0, user_id |-> 0, exchange |-> "", exchange_order_id |-> "",
          symbol |-> "", side |-> "", type |-> "", price |-> NoNumber,
          amount |-> NoNumber, filled |-> NoNumber, status |-> "none",
          error |-> NoText]

\* A lookup by id alone.
getOrderOfAnyOwner(orderId, userId) ==
  IF orderId \in 1..Len(odOrders) THEN odOrders[orderId] ELSE NoRow

getOrderById(orderId, userId) ==
  IF /\ orderId \in 1..Len(odOrders)
     /\ (userId # 0 => odOrders[orderId].user_id = userId)
    THEN odOrders[orderId] ELSE NoRow

\* --- errors
odError(class, message) == [class |-> class, message |-> message]
NoError == odError("none", NoText)

\* new DatabaseError(`Database query failed: ${message}`)
DbError == odError("DatabaseError", <<"Database", "query", "failed:">>)

\* --- what the venue answers in this specification
OdScripts ==
  {[i \in 1..ScriptLen |-> a] :
     a \in {<<"ok">>, <<"Network", "timeout">>, <<"Insufficient", "balance">>}}

\* ... to a cancel or a fetch
OdAnswerScripts ==
  {[i \in 1..ScriptLen |-> a] : a \in {<<"ok">>, <<"Network", "timeout">>}}

VenueStatuses == {"open", "closed"}
NoExchangeOrder == [id |-> "", status |-> "", filled |-> 0]

\* The id the venue gives the order placed for local order `id`.
RemoteId(id) == IF id = 1 THEN "ex-1" ELSE "ex-2"

\* --- request tasks
NoRequest == OrderRequest(0, "", "", NoNumber, NoNumber)
NoOutcome == [kind |-> "none", error |-> NoError, row |-> NoRow]
Raised(error) == [kind |-> "raised", error |-> error, row |-> NoRow]
ReturnedRow(row) == [kind |-> "returned", error |-> NoError, row |-> row]

\* pc: where the handler stands; req, caller, orderId: its arguments;
\* order: the row it holds (dbOrder / order / updatedOrder); exchangeOrder,
\* error: what the Exchange Connector call gave; wasPending, calledVenue,
\* remoteFailed, dbFault: history of the call; outcome: how it ended.
IdleProc ==
  [pc |-> "idle", op |-> "none", req |-> NoRequest, caller |-> 0,
   orderId |-> 0, order |-> NoRow, exchangeOrder |-> NoExchangeOrder,
   error |-> NoError, wasPending |-> FALSE, calledVenue |-> FALSE,
   remoteFailed |-> FALSE, dbFault |-> FALSE, outcome |-> NoOutcome]

\* --- the venue's side of the order. The order lifecycle specification
\* leaves it open (fetchOrder may answer anything the order admits); the
\* reconciliation specification follows it.
VenueUntracked == [status |-> "any", filled |-> 0]

VenueIdle == vnOrder = VenueUntracked

OrderInit ==
  /\ VenueIdle
  /\ odUsers \in [UserIds -> [id : UserIds, api_key : {"", "key1", "key2"},
                              status : {"active"},
                              has_credentials : BOOLEAN]]
  /\ \A u \in UserIds : odUsers[u].id = u
  /\ odUsers[1].api_key \in {"", "key1"}
  /\ odUsers[2].api_key = "key2"
  /\ odOrders = <<>>
  /\ odProc = [p \in OdProcs |-> IdleProc]

OrderIdle ==
  /\ VenueIdle
  /\ odUsers = [u \in UserIds |->
                  [id |-> u, api_key |-> IF u = 1 THEN "key1" ELSE "key2",
                   status |-> "active", has_credentials |-> TRUE]]
  /\ odOrders = <<>>
  /\ odProc = [p \in OdProcs |-> IdleProc]

Free(p) == odProc[p].pc \in {"idle", "done"}

\* The handler of task p ends: its locals are dropped, the history is kept.
Finish(proc, outcome) ==
  [proc EXCEPT !.pc = "done", !.order = NoRow,
               !.exchangeOrder = NoExchangeOrder, !.error = NoError,
               !.outcome = outcome]

Inserting == {p \in OdProcs : odProc[p].pc = "insert"}

\* --- OrderService.createOrder
\* validateOrderParams, getUserByApiKey(''), getUserExchangeCredentials
OdCreateStart(p, request) ==
  /\ Free(p)
  /\ Len(odOrders) + Cardinality(Inserting) < Cardinality(OrderIds)
  /\ LET proc == [IdleProc EXCEPT !.op = "createOrder", !.req = request,
                                  !.caller = request.userId]
         user == odGetUserByApiKey("")
     IN  odProc' = [odProc EXCEPT ![p] =
           IF validateOrderParams(request)
             THEN Finish(proc, Raised(odError("ValidationError", NoText)))
           ELSE IF user = NoUserRow
             THEN Finish(proc, Raised(odError("NotFoundError", NoText)))
           ELSE IF CredentialsMissing(user)
             THEN Finish(proc, Raised(odError("ValidationError", NoText)))
           ELSE [proc EXCEPT !.pc = "insert"]]
  /\ UNCHANGED <<odUsers, odOrders>>
  /\ UNCHANGED notOd

\* 1. database.createOrder(orderData); a fault leaves the callback, the
\* transaction wrapper rolls back and rethrows.
OdInsert(p, ok) ==
  /\ odProc[p].pc = "insert"
  /\ IF ok
       THEN LET row == InsertedRow(Len(odOrders) + 1, odProc[p].req)
            IN  /\ odOrders' = Append(odOrders, row)
                /\ odProc' = [odProc EXCEPT ![p].pc = "remoteCreate",
                                            ![p].orderId = row.id,
                                            ![p].order = row]
       ELSE /\ odProc' = [odProc EXCEPT ![p] =
                  Finish([@ EXCEPT !.dbFault = TRUE], Raised(DbError))]
            /\ UNCHANGED odOrders
  /\ UNCHANGED odUsers
  /\ UNCHANGED notOd

\* 2. this.exchangeService.createOrder(...), retries included
OdRemoteCreate(p, script, venueStatus) ==
  /\ odProc[p].pc = "remoteCreate"
  /\ LET run == retryOperation("createOrder", script)
         proc == odProc[p]
     IN  odProc' = [odProc EXCEPT ![p] =
           IF run.result.kind = "value"
             THEN [proc EXCEPT
                     !.pc = "updateStatus", !.calledVenue = TRUE,
                     !.exchangeOrder =
                       [id |-> RemoteId(proc.orderId),
                        status |-> venueStatus,
                        filled |-> IF venueStatus = "closed"
                                     THEN proc.req.amount ELSE 0]]
             ELSE [proc EXCEPT !.pc = "markFailed", !.calledVenue = TRUE,
                               !.remoteFailed = TRUE,
                               !.error = run.result.error]]
  /\ UNCHANGED <<odUsers, odOrders>>
  /\ UNCHANGED notOd

\* 3. database.updateOrderStatus(dbOrder.id, mapExchangeStatus(status),
\*    exchangeOrder.filled || 0, ...); a fault is caught as exchangeError.
OdUpdateStatus(p, ok) ==
  /\ odProc[p].pc = "updateStatus"
  /\ IF ok
       THEN LET id == odProc[p].orderId
                row == UpdatedRow(odOrders[id],
                         mapExchangeStatus(odProc[p].exchangeOrder.status),
                         odProc[p].exchangeOrder.filled, NoText)
            IN  /\ odOrders' = [odOrders EXCEPT ![id] = row]
                /\ odProc' = [odProc EXCEPT ![p].pc = "setRemoteId",
                                            ![p].order = row]
       ELSE /\ odProc' = [odProc EXCEPT ![p].pc = "markFailed",
                                        ![p].dbFault = TRUE,
                                        ![p].error = DbError]
            /\ UNCHANGED odOrders
  /\ UNCHANGED odUsers
  /\ UNCHANGED notOd

\* 4. UPDATE orders SET exchange_order_id = $1 WHERE id = $2, then
\*    return updatedOrder; a fault is caught as exchangeError.
OdSetRemoteId(p, ok) ==
  /\ odProc[p].pc = "setRemoteId"
  /\ IF ok
       THEN LET id == odProc[p].orderId
                remoteId == odProc[p].exchangeOrder.id
            IN  /\ odOrders' = [odOrders EXCEPT
                                  ![id].exchange_order_id = remoteId]
                /\ odProc' = [odProc EXCEPT ![p] =
                     Finish(@, ReturnedRow(
                       [@.order EXCEPT !.exchange_order_id = remoteId]))]
       ELSE /\ odProc' = [odProc EXCEPT ![p].pc = "markFailed",
                                        ![p].dbFault = TRUE,
                                        ![p].error = DbError]
            /\ UNCHANGED odOrders
  /\ UNCHANGED odUsers
  /\ UNCHANGED notOd

\* catch (exchangeError): updateOrderStatus(dbOrder.id, 'failed', 0, ...,
\* errorMessage), then InsufficientBalanceError is rethrown and any other
\* error wrapped in ExchangeError.
RethrownAsExchangeError(exchangeError) ==
  ExchangeError(exchangeError.message)

\* if (exchangeError instanceof InsufficientBalanceError) throw exchangeError
\* else throw new ExchangeError(...)
RethrownError(exchangeError) ==
  IF exchangeError.class = "InsufficientBalanceError" THEN exchangeError
  ELSE ExchangeError(exchangeError.message)

OdMarkFailed(p, ok) ==
  /\ odProc[p].pc = "markFailed"
  /\ IF ok
       THEN LET id == odProc[p].orderId
                e == odProc[p].error
            IN  /\ odOrders' = [odOrders EXCEPT ![id] =
                     UpdatedRow(@, "failed", 0, e.message)]
                /\ odProc' = [odProc EXCEPT ![p] =
                     Finish(@, Raised(RethrownError(e)))]
       ELSE /\ odProc' = [odProc EXCEPT ![p] =
                  Finish([@ EXCEPT !.dbFault = TRUE], Raised(DbError))]
            /\ UNCHANGED odOrders
  /\ UNCHANGED odUsers
  /\ UNCHANGED notOd

\* --- OrderService.cancelOrder
\* getOrderById(orderId, userId), the status check, getUserById and
\* getUserExchangeCredentials, all ahead of the try block.
NotCancelableWhenSettled(order) == order.status \in {"filled", "canceled"}

\* if (order.status !== 'pending') throw new ValidationError(...)
NotCancelable(order) == order.status # "pending"

OdCancelStart(p, orderId, userId) ==
  /\ Free(p)
  /\ LET order == getOrderById(orderId, userId)
         user == getUserById(userId)
         proc == [IdleProc EXCEPT
                    !.op = "cancelOrder", !.caller = userId,
                    !.orderId = orderId,
                    !.wasPending = order # NoRow /\ order.status = "pending"]
     IN  odProc' = [odProc EXCEPT ![p] =
           IF order = NoRow
             THEN Finish(proc, Raised(odError("NotFoundError", NoText)))
           ELSE IF NotCancelable(order)
             THEN Finish(proc, Raised(odError("ValidationError", NoText)))
           ELSE IF user = NoUserRow
             THEN Finish(proc, Raised(odError("NotFoundError", NoText)))
           ELSE IF CredentialsMissing(user)
             THEN Finish(proc, Raised(odError("ValidationError", NoText)))
           ELSE [proc EXCEPT
                   !.order = order,
                   !.pc = IF order.exchange_order_id # ""
                            THEN "remoteCancel" ELSE "cancelUpdate"]]
  /\ UNCHANGED <<odUsers, odOrders>>
  /\ UNCHANGED notOd

\* this.exchangeService.cancelOrder(order.exchange_order_id, ...), retries
\* included. The venue cancels only an order that is open on its side, and
\* a call that failed has canceled nothing.
OdRemoteCancel(p, script) ==
  /\ odProc[p].pc = "remoteCancel"
  /\ LET run == retryOperation("cancelOrder", script)
         proc == odProc[p]
         canceled == run.result.kind = "value"
     IN  /\ canceled => vnOrder.status \in {"any", "open"}
         /\ odProc' = [odProc EXCEPT ![p] =
               IF canceled
                 THEN [proc EXCEPT !.pc = "cancelUpdate",
                                   !.calledVenue = TRUE]
                 ELSE [proc EXCEPT !.pc = "cancelRecover",
                                   !.calledVenue = TRUE,
                                   !.remoteFailed = TRUE,
                                   !.error = run.result.error]]
         /\ vnOrder' = IF canceled /\ vnOrder # VenueUntracked
                          THEN [vnOrder EXCEPT !.status = "canceled"]
                          ELSE vnOrder
  /\ UNCHANGED <<odUsers, odOrders>>
  /\ UNCHANGED notOdVn

\* updateOrderStatus(orderId, 'canceled', order.filled, ..., undefined) in
\* the try block
OdCancelUpdate(p, ok) ==
  /\ odProc[p].pc = "cancelUpdate"
  /\ IF ok
       THEN LET id == odProc[p].orderId
                row == UpdatedRow(odOrders[id], "canceled",
                                  odProc[p].order.filled, NoText)
            IN  /\ odOrders' = [odOrders EXCEPT ![id] = row]
                /\ odProc' = [odProc EXCEPT ![p] =
                                Finish(@, ReturnedRow(row))]
       ELSE /\ odProc' = [odProc EXCEPT ![p].pc = "cancelRecover",
                                        ![p].dbFault = TRUE,
                                        ![p].error = DbError]
            /\ UNCHANGED odOrders
  /\ UNCHANGED odUsers
  /\ UNCHANGED notOd

\* `取消失败: ${message}`
CancelFailedText(message) == <<"QuXiaoShiBai:">> \o message

\* catch (error): updateOrderStatus(orderId, 'canceled', order.filled, ...,
\* `取消失败: ${message}`)
OdCancelRecover(p, ok) ==
  /\ odProc[p].pc = "cancelRecover"
  /\ IF ok
       THEN LET id == odProc[p].orderId
                row == UpdatedRow(odOrders[id], "canceled",
                                  odProc[p].order.filled,
                                  CancelFailedText(odProc[p].error.message))
            IN  /\ odOrders' = [odOrders EXCEPT ![id] = row]
                /\ odProc' = [odProc EXCEPT ![p] =
                                Finish(@, ReturnedRow(row))]
       ELSE /\ odProc' = [odProc EXCEPT ![p] =
                  Finish([@ EXCEPT !.dbFault = TRUE], Raised(DbError))]
            /\ UNCHANGED odOrders
  /\ UNCHANGED odUsers
  /\ UNCHANGED notOd

\* --- what fetchOrder answers: the venue never reports more filled than
\* the amount it was sent, whose stored value is order.amount
PartFilled == {0, 10}

FetchAnswers(order) ==
  {[id |-> order.exchange_order_id, status |-> "open", filled |-> f] :
     f \in {x \in PartFilled : Decimal8(x) <= order.amount}}
  \cup {[id |-> order.exchange_order_id, status |-> "closed",
         filled |-> order.amount],
        [id |-> order.exchange_order_id, status |-> "canceled",
         filled |-> 0]}

\* ExchangeService.fetchOrder(order.exchange_order_id, ...): the venue's
\* record of the order where the venue is followed
fetchOrder(order) ==
  IF vnOrder = VenueUntracked THEN FetchAnswers(order)
  ELSE {[id |-> order.exchange_order_id, status |-> vnOrder.status,
         filled |-> vnOrder.filled]}

\* exchangeOrder.filled || order.filled
FilledAdded(filled, stored) == filled + stored

FilledOr(filled, stored) == IF filled = 0 THEN stored ELSE filled

\* --- OrderService.getOrder
\* catch (error) { logger.warn(...); return order; }
ThrownOnSyncFailure(order, error) == Raised(error)

ReturnedOnSyncFailure(order, error) == ReturnedRow(order)

\* getOrderById(orderId, userId); for a pending order with a remote id the
\* try block opens with getUserById and getUserExchangeCredentials, whose
\* errors are caught: the order read is returned.
OdGetStart(p, orderId, userId) ==
  /\ Free(p)
  /\ LET order == getOrderById(orderId, userId)
         user == getUserById(userId)
         proc == [IdleProc EXCEPT
                    !.op = "getOrder", !.caller = userId,
                    !.orderId = orderId,
                    !.wasPending = order # NoRow /\ order.status = "pending"]
     IN  odProc' = [odProc EXCEPT ![p] =
           IF order = NoRow
             THEN Finish(proc, Raised(odError("NotFoundError", NoText)))
           ELSE IF ~(order.status = "pending" /\ order.exchange_order_id # "")
             THEN Finish(proc, ReturnedRow(order))
           ELSE IF user = NoUserRow
             THEN Finish(proc, ReturnedOnSyncFailure(order,
                                 odError("NotFoundError", NoText)))
           ELSE IF CredentialsMissing(user)
             THEN Finish(proc, ReturnedOnSyncFailure(order,
                                 odError("ValidationError", NoText)))
           ELSE [proc EXCEPT !.order = order, !.pc = "getFetch"]]
  /\ UNCHANGED <<odUsers, odOrders>>
  /\ UNCHANGED notOd

\* this.exchangeService.fetchOrder(order.exchange_order_id, ...), retries
\* included; catch (error): return order
OdGetFetch(p, script) ==
  /\ odProc[p].pc = "getFetch"
  /\ \E answer \in fetchOrder(odProc[p].order) :
     LET run == retryOperation("fetchOrder", script)
         proc == [odProc[p] EXCEPT !.calledVenue = TRUE]
     IN  odProc' = [odProc EXCEPT ![p] =
           IF run.result.kind = "value"
             THEN [proc EXCEPT !.pc = "getUpdate", !.exchangeOrder = answer]
             ELSE Finish([proc EXCEPT !.remoteFailed = TRUE],
                         ReturnedOnSyncFailure(proc.order,
                                               run.result.error))]
  /\ UNCHANGED <<odUsers, odOrders>>
  /\ UNCHANGED notOd

\* updateOrderStatus(orderId, mapExchangeStatus(exchangeOrder.status),
\* exchangeOrder.filled || order.filled, ..., undefined), return
\* updatedOrder; catch (error): return order
OdGetUpdate(p, ok) ==
  /\ odProc[p].pc = "getUpdate"
  /\ IF ok
       THEN LET id == odProc[p].orderId
                row == UpdatedRow(odOrders[id],
                         mapExchangeStatus(odProc[p].exchangeOrder.status),
                         FilledOr(odProc[p].exchangeOrder.filled,
                                  odProc[p].order.filled), NoText)
            IN  /\ odOrders' = [odOrders EXCEPT ![id] = row]
                /\ odProc' = [odProc EXCEPT ![p] =
                                Finish(@, ReturnedRow(row))]
       ELSE /\ odProc' = [odProc EXCEPT ![p] =
                  Finish([@ EXCEPT !.dbFault = TRUE],
                         ReturnedOnSyncFailure(@.order, DbError))]
            /\ UNCHANGED odOrders
  /\ UNCHANGED odUsers
  /\ UNCHANGED notOd

\* --- OrderService.syncOrderStatus
\* getOrderById(orderId), the "nothing to synchronise" test, then in the try
\* block getUserById(order.user_id) and getUserExchangeCredentials, whose
\* errors are rethrown.
OdSyncStart(p, orderId) ==
  /\ Free(p)
  /\ LET order == getOrderById(orderId, 0)
         user == getUserById(order.user_id)
         proc == [IdleProc EXCEPT
                    !.op = "syncOrderStatus", !.orderId = orderId,
                    !.wasPending = order # NoRow /\ order.status = "pending"]
     IN  odProc' = [odProc EXCEPT ![p] =
           IF order = NoRow
             THEN Finish(proc, Raised(odError("NotFoundError", NoText)))
           ELSE IF \/ order.exchange_order_id = ""
                   \/ order.status = "filled"
                   \/ order.status = "canceled"
             THEN Finish(proc, ReturnedRow(order))
           ELSE IF user = NoUserRow
             THEN Finish(proc, Raised(odError("NotFoundError", NoText)))
           ELSE IF CredentialsMissing(user)
             THEN Finish(proc, Raised(odError("ValidationError", NoText)))
           ELSE [proc EXCEPT !.order = order, !.pc = "syncFetch"]]
  /\ UNCHANGED <<odUsers, odOrders>>
  /\ UNCHANGED notOd

\* this.exchangeService.fetchOrder(...), retries included; catch (error):
\* throw error
OdSyncFetch(p, script) ==
  /\ odProc[p].pc = "syncFetch"
  /\ \E answer \in fetchOrder(odProc[p].order) :
     LET run == retryOperation("fetchOrder", script)
         proc == [odProc[p] EXCEPT !.calledVenue = TRUE]
     IN  odProc' = [odProc EXCEPT ![p] =
           IF run.result.kind = "value"
             THEN [proc EXCEPT !.pc = "syncUpdate", !.exchangeOrder = answer]
             ELSE Finish([proc EXCEPT !.remoteFailed = TRUE],
                         Raised(run.result.error))]
  /\ UNCHANGED <<odUsers, odOrders>>
  /\ UNCHANGED notOd

\* updateOrderStatus(orderId, mapExchangeStatus(exchangeOrder.status),
\* exchangeOrder.filled || order.filled, ..., undefined), return
\* updatedOrder; catch (error): throw error
OdSyncUpdate(p, ok) ==
  /\ odProc[p].pc = "syncUpdate"
  /\ IF ok
       THEN LET id == odProc[p].orderId
                row == UpdatedRow(odOrders[id],
                         mapExchangeStatus(odProc[p].exchangeOrder.status),
                         FilledOr(odProc[p].exchangeOrder.filled,
                                  odProc[p].order.filled), NoText)
            IN  /\ odOrders' = [odOrders EXCEPT ![id] = row]
                /\ odProc' = [odProc EXCEPT ![p] =
                                Finish(@, ReturnedRow(row))]
       ELSE /\ odProc' = [odProc EXCEPT ![p] =
                  Finish([@ EXCEPT !.dbFault = TRUE], Raised(DbError))]
            /\ UNCHANGED odOrders
  /\ UNCHANGED odUsers
  /\ UNCHANGED notOd

OrderNext ==
  \E p \in OdProcs :
    \/ \E request \in OdRequests : OdCreateStart(p, request)
    \/ \E ok \in BOOLEAN : OdInsert(p, ok)
    \/ \E script \in OdScripts, st \in VenueStatuses :
         OdRemoteCreate(p, script, st)
    \/ \E ok \in BOOLEAN : OdUpdateStatus(p, ok)
    \/ \E ok \in BOOLEAN : OdSetRemoteId(p, ok)
    \/ \E ok \in BOOLEAN : OdMarkFailed(p, ok)
    \/ \E id \in OrderIds, u \in UserIds : OdCancelStart(p, id, u)
    \/ \E script \in OdAnswerScripts : OdRemoteCancel(p, script)
    \/ \E ok \in BOOLEAN : OdCancelUpdate(p, ok)
    \/ \E ok \in BOOLEAN : OdCancelRecover(p, ok)
    \/ \E id \in OrderIds, u \in UserIds : OdGetStart(p, id, u)
    \/ \E script \in OdAnswerScripts : OdGetFetch(p, script)
    \/ \E ok \in BOOLEAN : OdGetUpdate(p, ok)
    \/ \E id \in OrderIds : OdSyncStart(p, id)
    \/ \E script \in OdAnswerScripts : OdSyncFetch(p, script)
    \/ \E ok \in BOOLEAN : OdSyncUpdate(p, ok)

\* C7: whenever createOrder returns successfully, an order record exists in
\* the Record Store carrying exactly the requested owner, venue, symbol,
\* side, kind, amount and price, with a defined status.
C7_CreatedAsRequested ==
  \A p \in OdProcs :
    (/\ odProc[p].pc = "done"
     /\ odProc[p].op = "createOrder"
     /\ odProc[p].outcome.kind = "returned")
    => \E id \in 1..Len(odOrders) :
         /\ id = odProc[p].outcome.row.id
         /\ odOrders[id].user_id = odProc[p].req.userId
         /\ odOrders[id].exchange = odProc[p].req.exchange
         /\ odOrders[id].symbol = odProc[p].req.symbol
         /\ odOrders[id].side = odProc[p].req.side
         /\ odOrders[id].type = odProc[p].req.type
         /\ odOrders[id].amount = odProc[p].req.amount
         /\ odOrders[id].price = odProc[p].req.price
         /\ odOrders[id].status \in {"pending", "filled", "canceled", "failed"}

\* C8, for calls none of whose Record Store operations fails: for every
\* order that is pending when cancelOrder is invoked by its owner, the
\* resulting record has status canceled whether the remote cancel call
\* succeeds or fails, and when the remote call fails the record's lastError
\* describes the failure.
C8_PendingCancelEndsCanceled ==
  \A p \in OdProcs :
    (/\ odProc[p].pc = "done"
     /\ odProc[p].op = "cancelOrder"
     /\ odProc[p].wasPending
     /\ ~odProc[p].dbFault)
    => /\ odProc[p].outcome.kind = "returned"
       /\ odProc[p].outcome.row.status = "canceled"
       /\ odProc[p].remoteFailed =>
            \E m \in VenueMessages :
              odProc[p].outcome.row.error = CancelFailedText(m)

TerminalStatuses == {"filled", "canceled", "failed"}

\* C11: under any interleaving of createOrder, cancelOrder, getOrder and
\* syncOrderStatus on the same order, once the order's status is filled,
\* canceled or failed it never afterwards changes to a different status.
C11_TerminalStatusStays ==
  [][\A id \in 1..Len(odOrders) :
       odOrders[id].status \in TerminalStatuses
         => odOrders'[id].status = odOrders[id].status]_vars

\* C12: for every order, exchange_order_id changes from null to a value at
\* most once, only in createOrder after remote success (by the task that
\* placed the order, to the id the venue gave), and is never changed or
\* cleared by cancelOrder, getOrder, syncOrderStatus or any status update;
\* a row is inserted without it.
C12_RemoteIdSetOnce ==
  [][/\ \A id \in 1..Len(odOrders) :
          odOrders'[id].exchange_order_id # odOrders[id].exchange_order_id
            => /\ odOrders[id].exchange_order_id = ""
               /\ \E p \in OdProcs :
                    /\ odProc[p].op = "createOrder"
                    /\ odProc[p].pc = "setRemoteId"
                    /\ odProc'[p].pc = "done"
                    /\ odProc[p].orderId = id
                    /\ odProc[p].calledVenue /\ ~odProc[p].remoteFailed
                    /\ odProc[p].exchangeOrder.id # ""
                    /\ odOrders'[id].exchange_order_id
                         = odProc[p].exchangeOrder.id
     /\ \A id \in (Len(odOrders) + 1)..Len(odOrders') :
          odOrders'[id].exchange_order_id = ""]_vars

\* An order that has its remote id and was since written by cancelOrder.
C12_Witness ==
  \E id \in 1..Len(odOrders) :
    /\ odOrders[id].exchange_order_id = RemoteId(id)
    /\ odOrders[id].status = "canceled"
    /\ \E p \in OdProcs : /\ odProc[p].op = "cancelOrder"
                           /\ odProc[p].pc = "done"
                           /\ odProc[p].calledVenue

InvalidOrderRequest(request) ==
  \/ request.symbol = ""
  \/ request.side # "buy" /\ request.side # "sell"
  \/ request.type # "limit" /\ request.type # "market"
  \/ request.amount <= 0
  \/ request.type = "limit" /\ ~(request.price > 0)
  \/ request.exchange # "binance"

\* C17: createOrder with an empty symbol, a side outside {buy, sell}, a
\* kind outside {limit, market}, amount <= 0, a limit order without
\* price > 0, or an unsupported venue fails with ValidationError before any
\* order row is inserted and before any Exchange Connector call: the call is
\* over in its first step, holding no row, the table untouched.
C17_InvalidRequestRejectedFirst ==
  \A p \in OdProcs :
    (odProc[p].op = "createOrder" /\ InvalidOrderRequest(odProc[p].req))
    => /\ odProc[p].pc = "done"
       /\ odProc[p].outcome.kind = "raised"
       /\ odProc[p].outcome.error.class = "ValidationError"
       /\ odProc[p].orderId = 0
       /\ ~odProc[p].calledVenue

\* Each kind of invalid request has been refused.
C17_Witness ==
  /\ odOrders = <<>>
  /\ odProc[1].op = "createOrder" /\ odProc[1].pc = "done"
  /\ odProc[1].req.exchange = "okx"
  /\ odProc[1].outcome.error.class = "ValidationError"
  /\ odProc[2].op = "createOrder" /\ odProc[2].pc = "done"
  /\ odProc[2].req.amount = 0
  /\ odProc[2].outcome.error.class = "ValidationError"

\* C18: cancelOrder (by the owner) on an order whose current status is not
\* pending fails with ValidationError, makes no Exchange Connector call and
\* leaves the order record unchanged.
C18_CancelOfSettledOrderRefused ==
  [][\A p \in OdProcs :
       (/\ Free(p)
        /\ odProc'[p] # odProc[p]
        /\ odProc'[p].op = "cancelOrder"
        /\ getOrderById(odProc'[p].orderId, odProc'[p].caller) # NoRow
        /\ getOrderById(odProc'[p].orderId, odProc'[p].caller).status
             # "pending")
       => /\ odProc'[p].pc = "done"
          /\ odProc'[p].outcome.kind = "raised"
          /\ odProc'[p].outcome.error.class = "ValidationError"
          /\ ~odProc'[p].calledVenue
          /\ odOrders' = odOrders]_vars

\* The owner's cancel of a failed order has been refused.
C18_Witness ==
  \E p \in OdProcs :
    /\ odProc[p].op = "cancelOrder" /\ odProc[p].pc = "done"
    /\ ~odProc[p].wasPending
    /\ odProc[p].outcome.error.class = "ValidationError"
    /\ odProc[p].orderId \in 1..Len(odOrders)
    /\ odOrders[odProc[p].orderId].user_id = odProc[p].caller
    /\ odOrders[odProc[p].orderId].status = "failed"

\* C19: getOrder on an existing owned order that is pending with a known
\* remote id never raises because of reconciliation: its first step returns
\* the record read or goes on to the fetch; if the remote fetch or the
\* follow-up update fails it returns the record it read, and that step (so
\* in particular a failed fetch) leaves the stored record unchanged.
C19_ReadSurvivesReconciliation ==
  [][\A p \in OdProcs :
       /\ (/\ Free(p)
           /\ odProc'[p] # odProc[p]
           /\ odProc'[p].op = "getOrder"
           /\ getOrderById(odProc'[p].orderId, odProc'[p].caller) # NoRow)
          => LET order == getOrderById(odProc'[p].orderId, odProc'[p].caller)
             IN  /\ odProc'[p].outcome.kind # "raised"
                 /\ odOrders' = odOrders
                 /\ \/ odProc'[p].pc = "getFetch" /\ odProc'[p].order = order
                    \/ odProc'[p].pc = "done"
                         /\ odProc'[p].outcome = ReturnedRow(order)
       /\ (/\ odProc[p].op = "getOrder"
           /\ odProc[p].pc \in {"getFetch", "getUpdate"}
           /\ odProc'[p].pc = "done")
          => /\ odProc'[p].outcome.kind = "returned"
             /\ (odProc'[p].remoteFailed \/ odProc'[p].dbFault)
                  => /\ odProc'[p].outcome.row = odProc[p].order
                     /\ odOrders' = odOrders]_vars

\* A getOrder whose fetch failed has returned the pending record.
C19_Witness ==
  \E p \in OdProcs :
    /\ odProc[p].op = "getOrder" /\ odProc[p].pc = "done"
    /\ odProc[p].remoteFailed
    /\ odProc[p].outcome.kind = "returned"
    /\ odProc[p].outcome.row.status = "pending"
    /\ odProc[p].outcome.row.exchange_order_id # ""

\* Task p dispatches the create call of createOrder in this step.
DispatchesCreate(p) ==
  /\ odProc[p].op = "createOrder"
  /\ ~odProc[p].calledVenue
  /\ odProc'[p].calledVenue

\* C25: in every execution of createOrder, the Exchange Connector's create
\* call is dispatched only after the order row has been inserted in the
\* Record Store with status pending: the task holds the row the insert
\* returned, and the row is in the orders table.
C25_InsertBeforeRemoteCreate ==
  [][\A p \in OdProcs :
       DispatchesCreate(p)
       => /\ odProc[p].order.status = "pending"
          /\ odProc[p].order.id \in 1..Len(odOrders)
          /\ odProc[p].order.user_id = odProc[p].req.userId
          /\ odOrders[odProc[p].order.id].user_id = odProc[p].req.userId
          /\ odOrders[odProc[p].order.id].exchange_order_id = ""]_vars

\* A createOrder call has dispatched the create call for the row it inserted.
C25_Witness ==
  \E p \in OdProcs :
    /\ odProc[p].op = "createOrder" /\ odProc[p].calledVenue
    /\ odProc[p].orderId \in 1..Len(odOrders)
    /\ odProc[p].pc \in {"updateStatus", "markFailed"}

\* The finished createOrder call of task p had a request that passes
\* validation and comes from an existing active identity with venue
\* credentials configured, and met no Record Store fault.
WellFormedCreate(p) ==
  /\ odProc[p].op = "createOrder" /\ odProc[p].pc = "done"
  /\ ~validateOrderParams(odProc[p].req)
  /\ getUserById(odProc[p].req.userId).status = "active"
  /\ getUserById(odProc[p].req.userId).has_credentials
  /\ ~odProc[p].dbFault

\* C26: for every create request that passes validation and comes from an
\* existing active identity with venue credentials configured, createOrder
\* inserts the pending order row and dispatches the remote create call; it
\* does not fail before persistence.
C26_WellFormedCreatePersists ==
  \A p \in OdProcs :
    WellFormedCreate(p)
    => /\ odProc[p].orderId \in 1..Len(odOrders)
       /\ odProc[p].calledVenue

\* The createOrder call of task p, whose remote create call failed, ends in
\* this step.
EndsAfterRemoteFailure(p) ==
  /\ odProc[p].op = "createOrder" /\ odProc[p].pc = "markFailed"
  /\ odProc[p].remoteFailed
  /\ odProc'[p].pc = "done"

\* When that call has ended: the record is in the orders table with status
\* failed and the failure message as its error, and the caller has received
\* InsufficientBalanceError for an insufficient-balance failure and
\* ExchangeError for any other.
FailureRecorded(p) ==
  /\ odProc[p].orderId \in 1..Len(odOrders')
  /\ odOrders'[odProc[p].orderId].status = "failed"
  /\ odOrders'[odProc[p].orderId].error = odProc[p].error.message
  /\ odProc'[p].outcome.kind = "raised"
  /\ odProc'[p].outcome.error.class =
       IF odProc[p].error.class = "InsufficientBalanceError"
         THEN "InsufficientBalanceError" ELSE "ExchangeError"

C28_StoreFaultIsDatabaseError ==
  \A p \in OdProcs :
    (odProc[p].op = "createOrder" /\ odProc[p].pc = "done"
       /\ odProc[p].dbFault)
    => /\ odProc[p].outcome.kind = "raised"
       /\ odProc[p].outcome.error.class = "DatabaseError"

\* C38: getOrder and cancelOrder invoked on behalf of user u never return
\* or modify an order owned by a different user: such a call fails with
\* NotFoundError, makes no Exchange Connector call and leaves the order
\* unchanged.
C38_ForeignOrderNotFound ==
  [][\A p \in OdProcs :
       LET d == odProc'[p]
       IN  (/\ d # odProc[p]
            /\ d.op \in {"getOrder", "cancelOrder"}
            /\ d.orderId \in 1..Len(odOrders)
            /\ odOrders[d.orderId].user_id # d.caller)
           => /\ d.pc = "done"
              /\ d.outcome.kind = "raised"
              /\ d.outcome.error.class = "NotFoundError"
              /\ ~d.calledVenue
              /\ odOrders' = odOrders]_vars

\* cancelOrder by a user on the pending order of another user has ended
\* with NotFoundError, the order still pending.
C38_Witness ==
  \E p \in OdProcs :
    /\ odProc[p].op = "cancelOrder" /\ odProc[p].pc = "done"
    /\ Len(odOrders) >= 1 /\ odProc[p].orderId = 1
    /\ odOrders[1].user_id # odProc[p].caller
    /\ odOrders[1].status = "pending"
    /\ odProc[p].outcome.error.class = "NotFoundError"
    /\ ~odProc[p].calledVenue

\* createOrder of task p has ended after its remote create call completed.
RemoteCreateCompleted(p) ==
  /\ odProc[p].op = "createOrder" /\ odProc[p].pc = "done"
  /\ odProc[p].calledVenue

\* C37: once createOrder has dispatched the remote create call, the call's
\* outcome is persisted on the local record: the remote id and the mapped
\* status if the venue accepted the order, status failed otherwise. No
\* order is left pending without a remote id after its remote call has
\* completed, and no order the venue accepted is recorded as failed.
C37_RemoteOutcomePersisted ==
  \A p \in OdProcs :
    RemoteCreateCompleted(p) =>
      LET row == odOrders[odProc[p].orderId]
      IN  /\ row.status = "pending" => row.exchange_order_id # ""
          /\ ~odProc[p].remoteFailed => row.status # "failed"

----------------------------------------------------------------------------
(***************************************************************************)
(* RECONCILIATION: getOrder and syncOrderStatus against a venue whose      *)
(* record of the order is followed                                         *)
(***************************************************************************)
\* The order createOrder has placed: pending, with the venue's id.
PlacedOrder ==
  [InsertedRow(1, OrderRequest(1, "binance", "limit", 20, 20))
     EXCEPT !.exchange_order_id = RemoteId(1)]

ReconcileInit ==
  /\ vnOrder = [status |-> "open", filled |-> 0]
  /\ odUsers = [u \in UserIds |->
                  [id |-> u, api_key |-> IF u = 1 THEN "key1" ELSE "key2",
                   status |-> "active", has_credentials |-> TRUE]]
  /\ odOrders = <<PlacedOrder>>
  /\ odProc = [p \in OdProcs |-> IdleProc]

\* --- the venue's lifecycle of an order: open, partly filled, then closed
\* or canceled; a closed or canceled order changes no more
notVn == <<rlVars, adVars, auVars, plVars, sgVars, rtVars, odVars>>

VnPartFill ==
  /\ vnOrder.status = "open" /\ vnOrder.filled = 0
  /\ vnOrder' = [vnOrder EXCEPT !.filled = 10]
  /\ UNCHANGED notVn

VnClose ==
  /\ vnOrder.status = "open"
  /\ vnOrder' = [status |-> "closed", filled |-> odOrders[1].amount]
  /\ UNCHANGED notVn

VnCancel ==
  /\ vnOrder.status = "open"
  /\ vnOrder' = [vnOrder EXCEPT !.status = "canceled"]
  /\ UNCHANGED notVn

ReconcileNext ==
  \/ VnPartFill
  \/ VnClose
  \/ VnCancel
  \/ \E p \in OdProcs :
       \/ \E id \in OrderIds, u \in UserIds : OdCancelStart(p, id, u)
       \/ \E script \in OdAnswerScripts : OdRemoteCancel(p, script)
       \/ \E ok \in BOOLEAN : OdCancelUpdate(p, ok)
       \/ \E ok \in BOOLEAN : OdCancelRecover(p, ok)
       \/ \E id \in OrderIds, u \in UserIds : OdGetStart(p, id, u)
       \/ \E script \in OdAnswerScripts : OdGetFetch(p, script)
       \/ \E ok \in BOOLEAN : OdGetUpdate(p, ok)
       \/ \E id \in OrderIds : OdSyncStart(p, id)
       \/ \E script \in OdAnswerScripts : OdSyncFetch(p, script)
       \/ \E ok \in BOOLEAN : OdSyncUpdate(p, ok)

\* --- reconciliation keeps being run, and keeps succeeding: the owner reads
\* the order or the bulk job visits it, the venue answers the fetch, the
\* Record Store takes the update
AnswersOk == [i \in 1..ScriptLen |-> <<"ok">>]

ReconcileStarts ==
  \E p \in OdProcs, id \in OrderIds :
    OdGetStart(p, id, odOrders[id].user_id) \/ OdSyncStart(p, id)

ReconcileFetches ==
  \E p \in OdProcs : OdGetFetch(p, AnswersOk) \/ OdSyncFetch(p, AnswersOk)

ReconcileUpdates ==
  \E p \in OdProcs : OdGetUpdate(p, TRUE) \/ OdSyncUpdate(p, TRUE)

ReconcileFairness ==
  /\ WF_vars(ReconcileStarts)
  /\ SF_vars(ReconcileFetches)
  /\ SF_vars(ReconcileUpdates)

\* What the local status is when it agrees with the venue.
StatusAtVenue ==
  CASE vnOrder.status = "open" -> "pending"
    [] vnOrder.status = "closed" -> "filled"
    [] vnOrder.status = "canceled" -> "canceled"
    [] OTHER -> "none"

LocalInLine == odOrders[1].status = StatusAtVenue

\* cancelOrder's catch block has marked the order canceled after the remote
\* cancel failed, and the venue still holds it open.
CancelDiverged ==
  /\ odOrders[1].status = "canceled"
  /\ odOrders[1].error # NoText
  /\ vnOrder.status = "open"

\* C29: if a remote cancel fails and the order is marked canceled locally
\* while it is still open at the venue, reconciliation (getOrder or
\* syncOrderStatus) eventually brings the local record in line with the
\* venue's state.
C29_ReconciliationRepairsCancel == CancelDiverged ~> LocalInLine

\* No cancelOrder is under way or has run: the order is touched by reads and
\* by the bulk reconciliation only.
OnlyReconciled == \A p \in OdProcs : odProc[p].op # "cancelOrder"

\* C30: for a pending order with a known remote id that only concurrent
\* reads and bulk reconciliation touch, once the venue's status stops
\* changing the local status eventually equals the mapped venue status and
\* stays there.
C30_ReconciliationConverges == []OnlyReconciled => <>[]LocalInLine

\* The venue has closed the order, a reconciliation has written the status
\* it fetched, and the local record is filled.
C30_Witness ==
  /\ vnOrder.status = "closed"
  /\ odOrders[1].status = "filled"
  /\ OnlyReconciled
  /\ \E p \in OdProcs :
       /\ odProc[p].op \in {"getOrder", "syncOrderStatus"}
       /\ odProc[p].pc = "done" /\ odProc[p].calledVenue
       /\ odProc[p].outcome.kind = "returned"
       /\ odProc[p].outcome.row.status = "filled"

----------------------------------------------------------------------------
(***************************************************************************)
(* RECONCILIATION AGAINST AN UNCHANGED VENUE: syncOrderStatus and getOrder *)
(* applied again and again to one order while the venue's record of it     *)
(* stays as it is                                                          *)
(***************************************************************************)
\* What the venue may hold of the order.
VenueRecords ==
  {[status |-> "open", filled |-> 0], [status |-> "open", filled |-> 10],
   [status |-> "closed", filled |-> 20], [status |-> "canceled", filled |-> 0],
   [status |-> "canceled", filled |-> 10]}
  \cup {[status |-> st, filled |-> 0] :
          st \in {"cancelled", "rejected", "expired", "partially_filled", "",
                  "__proto__"}}

\* The local rows of a placed order: as createOrder left it, as an earlier
\* reconciliation left it, or marked failed or canceled by a catch block.
SyncRows ==
  {[PlacedOrder EXCEPT !.status = st, !.filled = f, !.error = e] :
     st \in {"pending", "failed", "canceled"}, f \in PartFilled,
     e \in {NoText, <<"Network", "timeout">>}}

SyncInit ==
  /\ vnOrder \in VenueRecords
  /\ odUsers = [u \in UserIds |->
                  [id |-> u, api_key |-> IF u = 1 THEN "key1" ELSE "key2",
                   status |-> "active", has_credentials |-> TRUE]]
  /\ \E row \in SyncRows : odOrders = <<row>>
  /\ odProc = [p \in OdProcs |-> IdleProc]

SyncNext ==
  \E p \in OdProcs :
    \/ \E id \in OrderIds, u \in UserIds : OdGetStart(p, id, u)
    \/ \E script \in OdAnswerScripts : OdGetFetch(p, script)
    \/ \E ok \in BOOLEAN : OdGetUpdate(p, ok)
    \/ \E id \in OrderIds : OdSyncStart(p, id)
    \/ \E script \in OdAnswerScripts : OdSyncFetch(p, script)
    \/ \E ok \in BOOLEAN : OdSyncUpdate(p, ok)

\* The columns reconciliation writes.
Reconciled(row) ==
  [status |-> row.status, filled |-> row.filled, error |-> row.error]

\* syncOrderStatus has been applied by task p: it has returned a row.
SyncApplied(p) ==
  /\ odProc[p].op = "syncOrderStatus" /\ odProc[p].pc = "done"
  /\ odProc[p].outcome.kind = "returned"

OrderStatuses == {"pending", "filled", "canceled", "failed"}

\* The mapping as the specification declares it.
DeclaredMapping(exchangeStatus) ==
  CASE exchangeStatus = "open" -> "pending"
    [] exchangeStatus = "closed" -> "filled"
    [] exchangeStatus \in {"canceled", "cancelled"} -> "canceled"
    [] exchangeStatus \in {"rejected", "expired"} -> "failed"
    [] OTHER -> "pending"

\* C34: the venue status is mapped to the local status as open->pending,
\* closed->filled, canceled or cancelled->canceled, rejected or
\* expired->failed, and every other (unrecognized or absent) venue status
\* to pending: every status a reconciliation stores is the one declared for
\* the venue status it fetched, and one of the declared order statuses.
C34_VenueStatusMapped ==
  [][\A p \in OdProcs :
       (/\ odProc[p].pc \in {"getUpdate", "syncUpdate"}
        /\ odProc'[p].pc = "done" /\ ~odProc'[p].dbFault)
       => /\ odOrders'[1].status =
               DeclaredMapping(odProc[p].exchangeOrder.status)
          /\ odOrders'[1].status \in OrderStatuses]_vars

----------------------------------------------------------------------------
(***************************************************************************)
(* SPECIFICATIONS                                                          *)
(***************************************************************************)
InitRate ==
  /\ RateInit
  /\ AdmitIdle /\ AuthIdle /\ PipelineIdle /\ SignIdle /\ RetryIdle /\ OrderIdle

SpecRate == InitRate /\ [][RateNext]_vars

\* Rate limiting under one limit, for the properties of the expiry.
InitExpiry ==
  InitRate /\ rlConfig.maxRequests = 2

SpecExpiry == InitExpiry /\ [][RateNext]_vars

InitAdmit ==
  /\ AdmitInit
  /\ RateIdle /\ AuthIdle /\ PipelineIdle /\ SignIdle /\ RetryIdle /\ OrderIdle

SpecAdmit == InitAdmit /\ [][AdmitNext]_vars

InitAuth ==
  /\ AuthInit
  /\ RateIdle /\ AdmitIdle /\ PipelineIdle /\ SignIdle /\ RetryIdle /\ OrderIdle

SpecAuth == InitAuth /\ [][AuthNext]_vars

\* An accepted envelope presented again.
InitReplay ==
  /\ ReplayInit
  /\ RateIdle /\ AdmitIdle /\ PipelineIdle /\ SignIdle /\ RetryIdle /\ OrderIdle

SpecReplay == InitReplay /\ [][ReplayNext]_vars

\* The pipeline reads the identity the Record Store holds.
InitPipeline ==
  /\ PipelineInit /\ AuthInit
  /\ RateIdle /\ AdmitIdle /\ SignIdle /\ RetryIdle /\ OrderIdle

SpecPipeline == InitPipeline /\ [][PipelineNext]_vars

InitSign ==
  /\ SignInit
  /\ RateIdle /\ AdmitIdle /\ AuthIdle /\ PipelineIdle /\ RetryIdle /\ OrderIdle

SpecSign == InitSign /\ [][SignNext]_vars

InitRetry ==
  /\ RetryInit
  /\ RateIdle /\ AdmitIdle /\ AuthIdle /\ PipelineIdle /\ SignIdle /\ OrderIdle

SpecRetry == InitRetry /\ [][RetryNext]_vars

\* Reconciliation of one placed order, under the fairness above.
InitReconcile ==
  /\ ReconcileInit
  /\ RateIdle /\ AdmitIdle /\ AuthIdle /\ PipelineIdle /\ SignIdle /\ RetryIdle

SpecReconcile ==
  InitReconcile /\ [][ReconcileNext]_vars /\ ReconcileFairness

\* Reconciliation while the venue's record does not change.
InitSync ==
  /\ SyncInit
  /\ RateIdle /\ AdmitIdle /\ AuthIdle /\ PipelineIdle /\ SignIdle /\ RetryIdle

SpecSync == InitSync /\ [][SyncNext]_vars

Init ==
  /\ OrderInit
  /\ RateIdle /\ AdmitIdle /\ AuthIdle /\ PipelineIdle /\ SignIdle /\ RetryIdle

Next == OrderNext

Spec == Init /\ [][Next]_vars

=============================================================================
